---------------------------- MODULE Spec2Model ----------------------------
(***************************************************************************)
(* A model of the MAVLink runtime emitted by generator/mavgen_python.py:   *)
(* the frame header, MAVLink_message.pack, MAVLink.send, the streaming     *)
(* parser (parse_char, __parse_char_legacy, parse_buffer), check_signature *)
(* and decode.  Frames are sequences of bytes 0..255; Python 3 semantics.  *)
(***************************************************************************)
EXTENDS Integers, Sequences, FiniteSets, TLC

VARIABLES
    WIRE_PROTOCOL_VERSION,  \* the dialect's wire version, "1.0" or "2.0"
    MAVLINK_IGNORE_CRC,     \* the MAV_IGNORE_CRC override of the environment
    mav,                    \* the MAVLink object's own fields
    signing,                \* mav.signing, a MAVLinkSigning object
    file,                   \* the bytes of the last frame written to mav.file
    mavmsg,                 \* the message instance the caller last sent
    stream,                 \* the bytes the transport brings, in arrival order
    fed,                    \* how many of them the caller has fed to the parser
    delivered,              \* the messages handed to the receive callback, in order
    call,                   \* the last call made on the session and its argument
    ret                     \* what that call returned or raised

vars == <<WIRE_PROTOCOL_VERSION, MAVLINK_IGNORE_CRC, mav, signing, file, mavmsg, stream, fed,
          delivered, call, ret>>

\* the generated module's globals, fixed once the process runs
globals == <<WIRE_PROTOCOL_VERSION, MAVLINK_IGNORE_CRC>>

(***************************************************************************)
(* Program constants.                                                      *)
(***************************************************************************)
PROTOCOL_MARKER_V1 == 254
PROTOCOL_MARKER_V2 == 253
HEADER_LEN_V1 == 6
HEADER_LEN_V2 == 10
MAVLINK_SIGNATURE_BLOCK_LEN == 13
MAVLINK_IFLAG_SIGNED == 1
MAVLINK_MSG_ID_BAD_DATA == -1
MAVLINK_MSG_ID_UNKNOWN == -2
\* the backward tolerance of check_signature for a first-seen stream
NEW_STREAM_TOLERANCE == 6000000

\* Python's None, for the integer-valued attributes (_crc, _link_id)
NoneInt == -100
\* Python's None for signing.secret_key (a configured key is never empty)
NoKey == <<>>
\* Python's None for signing.allow_unsigned_callback
NoCallback == "None"

(***************************************************************************)
(* Bytes and integers.                                                     *)
(***************************************************************************)
Byte == 0..255

RECURSIVE BitXor(_, _)
BitXor(a, b) ==
    IF a = 0 /\ b = 0 THEN 0
    ELSE (((a % 2) + (b % 2)) % 2) + 2 * BitXor(a \div 2, b \div 2)

RECURSIVE XorRow(_, _)
XorRow(a, n) == IF n = 0 THEN <<>> ELSE Append(XorRow(a, n - 1), BitXor(a, n - 1))

RECURSIVE XorRows(_)
XorRows(n) == IF n = 0 THEN <<>> ELSE Append(XorRows(n - 1), XorRow(n - 1, 16))

\* a ^ b on 4-bit values, tabulated once
XorNibble == XorRows(16)

RECURSIVE Xor(_, _)
Xor(a, b) ==
    IF a = 0 THEN b
    ELSE IF b = 0 THEN a
    ELSE XorNibble[(a % 16) + 1][(b % 16) + 1] + 16 * Xor(a \div 16, b \div 16)

\* s[from:to] of Python for 0 <= from, with to clipped to len(s)
Slice(s, from, to) ==
    LET hi == IF to > Len(s) THEN Len(s) ELSE to
    IN  IF from >= hi THEN <<>> ELSE SubSeq(s, from + 1, hi)

\* a variant padding with ones, for comparison
RECURSIVE Zeros_Ones(_)
Zeros_Ones(n) == IF n <= 0 THEN <<>> ELSE <<1>> \o Zeros_Ones(n - 1)

RECURSIVE Zeros(_)
Zeros(n) == IF n <= 0 THEN <<>> ELSE <<0>> \o Zeros(n - 1)

\* a big-endian variant, for comparison
PackU16_BigEndian(v) == <<(v \div 256) % 256, v % 256>>
\* struct.pack('<H', v)
PackU16(v) == <<v % 256, (v \div 256) % 256>>
\* struct.unpack('<H', b)
UnpackU16(b) == b[1] + 256 * b[2]

(***************************************************************************)
(* x25crc (pymavlink.generator.mavcrc): the X25 CRC, register 0xFFFF.      *)
(***************************************************************************)
\* one byte's contribution: for t1 = b ^ (accum & 0xff), the value
\* (tmp<<8) ^ (tmp<<3) ^ (tmp>>4) with tmp = (t1 ^ (t1<<4)) & 0xFF
X25Entry(t1) ==
    LET tmp == Xor(t1, (t1 * 16) % 256)
    IN  Xor(Xor(tmp * 256, tmp * 8), tmp \div 16)

RECURSIVE X25Entries(_, _)
X25Entries(lo, hi) ==
    IF lo = hi THEN <<X25Entry(lo)>>
    ELSE X25Entries(lo, (lo + hi) \div 2) \o X25Entries(((lo + hi) \div 2) + 1, hi)

\* X25Entry tabulated once for the 256 values of t1
X25Table == X25Entries(0, 255)

\* one turn of the loop of accumulate
X25Step(accum, b) == Xor(accum \div 256, X25Table[Xor(b, accum % 256) + 1])

\* accumulate over buf, from the register value accum
RECURSIVE X25Accumulate(_, _)
X25Accumulate(accum, buf) ==
    IF buf = <<>> THEN accum
    ELSE X25Step(X25Accumulate(accum, SubSeq(buf, 1, Len(buf) - 1)), buf[Len(buf)])

x25crc(buf) == X25Accumulate(65535, buf)


\* the n low bytes of v, little-endian (struct.pack('<Q', v)[:n])
RECURSIVE LEBytes(_, _)
LEBytes(v, n) == IF n = 0 THEN <<>> ELSE <<v % 256>> \o LEBytes(v \div 256, n - 1)

\* the little-endian value of the bytes b
RECURSIVE LEValue(_)
LEValue(b) == IF b = <<>> THEN 0 ELSE Head(b) + 256 * LEValue(Tail(b))

(***************************************************************************)
(* hashlib's SHA-256 truncated to 6 bytes: h.update(key); h.update(data);  *)
(* h.digest()[:6].  The hash is idealised as a deterministic mixing of the *)
(* key and the data that separates every pair of inputs the model uses.    *)
(***************************************************************************)
RECURSIVE Mix(_, _)
Mix(acc, buf) ==
    IF buf = <<>> THEN acc
    ELSE (Mix(acc, SubSeq(buf, 1, Len(buf) - 1)) * 33 + buf[Len(buf)] + 1) % 65521

Sha256Digest6(key, data) ==
    LET h == Mix(Mix(5381, key), data)
    IN  LEBytes(h, 2) \o LEBytes((h * 7 + Len(data)) % 65521, 2)
            \o LEBytes((h * 13 + 5) % 65521, 2)

(***************************************************************************)
(* The dialect: the message definitions the generator is run on.  Each     *)
(* message lists its fields in declared order and the names in wire order  *)
(* (larger types first); generate_classes emits one class per message.     *)
(***************************************************************************)
Fld(name, type, n) == [name |-> name, type |-> type, array_length |-> n]

MsgValue ==
    [id |-> 0, name |-> "VALUE", crc_extra |-> 50,
     fields |-> <<Fld("value", "uint8_t", 0)>>,
     ordered_fieldnames |-> <<"value">>]

MsgPair ==
    [id |-> 1, name |-> "PAIR", crc_extra |-> 77,
     fields |-> <<Fld("a", "uint8_t", 0), Fld("b", "uint16_t", 0)>>,
     ordered_fieldnames |-> <<"b", "a">>]

MsgBlob ==
    [id |-> 2, name |-> "BLOB", crc_extra |-> 201,
     fields |-> <<Fld("text", "char", 2), Fld("arr", "uint8_t", 2),
                  Fld("w", "uint16_t", 0)>>,
     ordered_fieldnames |-> <<"w", "text", "arr">>]

\* msgs of generate(): every message of the dialect
msgs == <<MsgValue, MsgPair, MsgBlob>>

\* mavlink_map: message id -> class; absent ids are not in the map
InMavlinkMap(msgId) == \E i \in 1..Len(msgs) : msgs[i].id = msgId
mavlink_map(msgId) == msgs[CHOOSE i \in 1..Len(msgs) : msgs[i].id = msgId]

\* list.index(x), 0-based
IndexOf(seq, x) == (CHOOSE i \in 1..Len(seq) : seq[i] = x) - 1

fieldnames(m) == [i \in 1..Len(m.fields) |-> m.fields[i].name]
fieldtypes(m) == [i \in 1..Len(m.fields) |-> m.fields[i].type]

\* m.ordered_fields: the fields in wire order
ordered_fields(m) ==
    [i \in 1..Len(m.fields) |-> m.fields[IndexOf(fieldnames(m), m.ordered_fieldnames[i]) + 1]]

\* m.fieldlengths (mavparse): 1 for a scalar and for a char array, else the array length
fieldlengths(m) ==
    [i \in 1..Len(m.fields) |->
        IF m.fields[i].array_length = 0 THEN 1
        ELSE IF m.fields[i].array_length > 1 /\ m.fields[i].type = "char" THEN 1
        ELSE m.fields[i].array_length]

\* m.order_map[i]: the wire position (0-based) of declared field i
order_map(m) ==
    [i \in 1..Len(m.fields) |-> IndexOf(m.ordered_fieldnames, fieldnames(m)[i])]

\* m.len_map[n]: the number of unpacked values of the field at wire position n
len_map(m) ==
    [n \in 1..Len(m.fields) |->
        fieldlengths(m)[CHOOSE i \in 1..Len(m.fields) : order_map(m)[i] = n - 1]]

\* the size in bytes of one value of a type
TypeSize(type) == IF type = "uint16_t" THEN 2 ELSE 1

\* mavfmt(field): one item of the struct format; "s" is one value of n bytes,
\* any other code is count values
mavfmt(field) ==
    IF field.array_length # 0
    THEN IF field.type = "char"
         THEN [code |-> "s", count |-> field.array_length]
         ELSE [code |-> field.type, count |-> field.array_length]
    ELSE [code |-> field.type, count |-> 1]

\* m.fmtstr: the struct format of the payload, in wire order
fmtstr(m) == [i \in 1..Len(m.fields) |-> mavfmt(ordered_fields(m)[i])]

\* the number of values one format item packs
ItemValues(item) == IF item.code = "s" THEN 1 ELSE item.count
\* the number of bytes one format item packs
ItemSize(item) == IF item.code = "s" THEN item.count ELSE item.count * TypeSize(item.code)

\* the value of a char field is a Python bytes object when the caller builds
\* the message and a Python str when decode builds it
Bytes(s) == [py |-> "bytes", v |-> s]
Str(s) == [py |-> "str", v |-> s]

\* struct.pack of one value
PackValue(code, v) == IF code = "uint16_t" THEN PackU16(v) ELSE <<v>>

\* struct.pack of the count values of one item; an 'Ns' item truncates its
\* bytes value to N or pads it with NULs
RECURSIVE PackValues(_, _)
PackValues(code, vs) ==
    IF vs = <<>> THEN <<>> ELSE PackValue(code, Head(vs)) \o PackValues(code, Tail(vs))

PackItem(item, vs) ==
    IF item.code = "s"
    THEN Slice(vs[1].v, 0, item.count) \o Zeros(item.count - Len(vs[1].v))
    ELSE PackValues(item.code, vs)

\* struct.pack(fmt, *args)
RECURSIVE StructPack(_, _)
StructPack(fmt, args) ==
    IF fmt = <<>> THEN <<>>
    ELSE LET n == ItemValues(Head(fmt))
         IN  PackItem(Head(fmt), SubSeq(args, 1, n))
                 \o StructPack(Tail(fmt), SubSeq(args, n + 1, Len(args)))

\* struct.Struct(fmt).size
RECURSIVE StructSize(_)
StructSize(fmt) == IF fmt = <<>> THEN 0 ELSE ItemSize(Head(fmt)) + StructSize(Tail(fmt))

\* struct.unpack of the values of one item
RECURSIVE UnpackValues(_, _)
UnpackValues(code, buf) ==
    IF buf = <<>> THEN <<>>
    ELSE IF code = "uint16_t"
         THEN <<UnpackU16(buf)>> \o UnpackValues(code, SubSeq(buf, 3, Len(buf)))
         ELSE <<buf[1]>> \o UnpackValues(code, Tail(buf))

UnpackItem(item, buf) == IF item.code = "s" THEN <<Bytes(buf)>> ELSE UnpackValues(item.code, buf)

\* struct.unpack(fmt, buf), for len(buf) = size
RECURSIVE StructUnpack(_, _)
StructUnpack(fmt, buf) ==
    IF fmt = <<>> THEN <<>>
    ELSE LET n == ItemSize(Head(fmt))
         IN  UnpackItem(Head(fmt), SubSeq(buf, 1, n))
                 \o StructUnpack(Tail(fmt), SubSeq(buf, n + 1, Len(buf)))

\* the arguments the generated pack method hands to struct.pack: the fields in
\* wire order, a non-char array spread into its elements
RECURSIVE PackArgs(_, _, _)
PackArgs(m, values, i) ==
    IF i > Len(m.fields) THEN <<>>
    ELSE LET field == ordered_fields(m)[i]
             v == values[IndexOf(fieldnames(m), field.name) + 1]
         IN  (IF field.type # "char" /\ field.array_length > 1
              THEN SubSeq(v, 1, field.array_length)
              ELSE <<v>>) \o PackArgs(m, values, i + 1)

(***************************************************************************)
(* MAVLink_header and the message instances.                               *)
(***************************************************************************)
\* xml.protocol_marker: the magic of the dialect's wire version
PROTOCOL_MARKER(wire_version) ==
    IF wire_version = "2.0" THEN PROTOCOL_MARKER_V2 ELSE PROTOCOL_MARKER_V1

\* xml.crc_extra: both wire versions fold the message's seed into the CRC
crc_extra_enabled == TRUE
\* xml.sort_fields: both wire versions reorder the fields on the wire
sort_fields == TRUE

MAVLink_header(msgId, incompat_flags, compat_flags, mlen, seq, srcSystem, srcComponent) ==
    [msgId |-> msgId, incompat_flags |-> incompat_flags, compat_flags |-> compat_flags,
     mlen |-> mlen, seq |-> seq, srcSystem |-> srcSystem, srcComponent |-> srcComponent]

\* MAVLink_header.pack, in the module generated for wire_version
HeaderPack(wire_version, h, force_mavlink1) ==
    IF wire_version = "2.0" /\ ~force_mavlink1
    THEN <<PROTOCOL_MARKER(wire_version), h.mlen, h.incompat_flags, h.compat_flags, h.seq,
           h.srcSystem, h.srcComponent>>
             \o PackU16(h.msgId % 65536) \o <<h.msgId \div 65536>>
    ELSE <<PROTOCOL_MARKER_V1, h.mlen, h.seq, h.srcSystem, h.srcComponent, h.msgId>>

\* _payload = None
NonePayload == <<NoneInt>>

\* MAVLink_message.__init__ with the attributes the subclasses add
MAVLink_message(msgId, name) ==
    [kind |-> "message", type |-> name, unknown_id |-> NoneInt,
     header |-> MAVLink_header(msgId, 0, 0, 0, 0, 0, 0),
     payload |-> NonePayload, msgbuf |-> <<>>, crc |-> NoneInt,
     signed |-> FALSE, link_id |-> NoneInt,
     fields |-> <<>>, data |-> <<>>, reason |-> ""]

\* the generated class of message m, constructed with its field values
MessageInstance(m, values) == [MAVLink_message(m.id, m.name) EXCEPT !.fields = values]

MAVLink_bad_data(data, reason) ==
    [MAVLink_message(MAVLINK_MSG_ID_BAD_DATA, "BAD_DATA") EXCEPT
        !.data = data, !.reason = reason, !.msgbuf = data]

\* a variant that forgets which id the frame carried
MAVLink_unknown_NoId(msgid, data) ==
    [MAVLink_message(MAVLINK_MSG_ID_UNKNOWN, "UNKNOWN") EXCEPT !.data = data, !.msgbuf = data]

\* MAVLink_unknown: the type name 'UNKNOWN_%u' % msgid is kept as the type
\* "UNKNOWN" and the number in unknown_id
MAVLink_unknown(msgid, data) ==
    [MAVLink_message(MAVLINK_MSG_ID_UNKNOWN, "UNKNOWN") EXCEPT
        !.unknown_id = msgid, !.data = data, !.msgbuf = data]

\* what a call returns or raises
RetNone == [kind |-> "None"]
MAVError(msg) == [kind |-> "MAVError", message |-> msg]
IsMessage(r) == r.kind = "message"
IsError(r) == r.kind = "MAVError"

(***************************************************************************)
(* MAVLink_message.sign_packet and MAVLink_message.pack.                   *)
(***************************************************************************)
\* a variant that signs with the clock it has just advanced
sign_packet_ClockFirst(msg, sg) ==
    LET stamped == msg.msgbuf \o <<sg.link_id>> \o LEBytes(sg.timestamp + 1, 6)
        sig == Sha256Digest6(sg.secret_key, stamped)
    IN  [msg |-> [msg EXCEPT !.msgbuf = stamped \o sig],
         signing |-> [sg EXCEPT !.timestamp = sg.timestamp + 1]]

\* sign_packet: the message with its signature block, and the signing state
sign_packet(msg, sg) ==
    LET stamped == msg.msgbuf \o <<sg.link_id>> \o LEBytes(sg.timestamp, 6)
        sig == Sha256Digest6(sg.secret_key, stamped)
    IN  [msg |-> [msg EXCEPT !.msgbuf = stamped \o sig],
         signing |-> [sg EXCEPT !.timestamp = sg.timestamp + 1]]

\* a variant that strips an all-zero payload to nothing
RECURSIVE TrimLen_ToNothing(_, _)
TrimLen_ToNothing(payload, plen) ==
    IF plen > 0 /\ payload[plen] = 0 THEN TrimLen_ToNothing(payload, plen - 1) ELSE plen

\* the while loop of pack: strip trailing zeros, never below one byte
RECURSIVE TrimLen(_, _)
TrimLen(payload, plen) ==
    IF plen > 1 /\ payload[plen] = 0 THEN TrimLen(payload, plen - 1) ELSE plen

\* pack: [msg, signing], the instance filled in (its msgbuf is the frame)
pack(wire_version, msg, mv, sg, crc_extra, payload, force_mavlink1) ==
    LET plen == IF wire_version # "1.0" /\ ~force_mavlink1
                THEN TrimLen(payload, Len(payload))
                ELSE Len(payload)
        trimmed == Slice(payload, 0, plen)
        incompat_flags == IF sg.sign_outgoing THEN MAVLINK_IFLAG_SIGNED ELSE 0
        hdr == MAVLink_header(msg.header.msgId, incompat_flags, 0, Len(trimmed),
                              mv.seq, mv.srcSystem, mv.srcComponent)
        body == HeaderPack(wire_version, hdr, force_mavlink1) \o trimmed
        crc == IF crc_extra_enabled THEN x25crc(Tail(body) \o <<crc_extra>>)
               ELSE x25crc(Tail(body))
        packed == [msg EXCEPT !.payload = trimmed, !.header = hdr, !.crc = crc,
                              !.msgbuf = body \o PackU16(crc)]
    IN  IF sg.sign_outgoing /\ ~force_mavlink1
        THEN sign_packet(packed, sg)
        ELSE [msg |-> packed, signing |-> sg]

\* the generated pack method of message m
MessagePack(wire_version, m, msg, mv, sg, force_mavlink1) ==
    pack(wire_version, msg, mv, sg, m.crc_extra, StructPack(fmtstr(m), PackArgs(m, msg.fields, 1)),
         force_mavlink1)

(***************************************************************************)
(* MAVLink.check_signature.                                                *)
(***************************************************************************)
Max(a, b) == IF a >= b THEN a ELSE b

\* allow_unsigned_callback(self, msgId): the policies a session may install
Callbacks == {"accept", "reject"}
CallbackResult(cb, msgId) == cb = "accept"

\* the fields check_signature reads from the tail of a signed frame
SigLinkId(msgbuf) == msgbuf[Len(msgbuf) - 12]
SigTimestamp(msgbuf) == LEValue(SubSeq(msgbuf, Len(msgbuf) - 11, Len(msgbuf) - 6))
SigDigest(msgbuf) == SubSeq(msgbuf, Len(msgbuf) - 5, Len(msgbuf))

\* "reject old timestamp": the test on a known stream
OldTimestamp(timestamp, last) == timestamp <= last

\* the test on a first-seen stream, one off: rejects a frame exactly
\* NEW_STREAM_TOLERANCE behind
ImplausibleNewStream_OffByOne(timestamp, now) == timestamp + NEW_STREAM_TOLERANCE <= now

\* the test on a first-seen stream: more than the tolerance behind the clock
ImplausibleNewStream(timestamp, now) == timestamp + NEW_STREAM_TOLERANCE < now

\* check_signature: [ok, signing]
\* a variant that takes the incoming timestamp for the session's, later or not
check_signature_TakesIncoming(sg, msgbuf, srcSystem, srcComponent) ==
    LET link_id == SigLinkId(msgbuf)
        timestamp == SigTimestamp(msgbuf)
        stream_key == <<link_id, srcSystem, srcComponent>>
        known == stream_key \in DOMAIN sg.stream_timestamps
        entered == IF known THEN sg
                   ELSE [sg EXCEPT !.stream_timestamps = (stream_key :> timestamp) @@ @]
        sig1 == Sha256Digest6(sg.secret_key, SubSeq(msgbuf, 1, Len(msgbuf) - 6))
        sig2 == SigDigest(msgbuf)
    IN  IF known /\ OldTimestamp(timestamp, sg.stream_timestamps[stream_key])
        THEN [ok |-> FALSE, signing |-> sg]
        ELSE IF ~known /\ ImplausibleNewStream(timestamp, sg.timestamp)
        THEN [ok |-> FALSE, signing |-> sg]
        ELSE IF sig1 # sig2
        THEN [ok |-> FALSE, signing |-> entered]
        ELSE [ok |-> TRUE,
              signing |-> [entered EXCEPT !.timestamp = timestamp]]

check_signature(sg, msgbuf, srcSystem, srcComponent) ==
    LET link_id == SigLinkId(msgbuf)
        timestamp == SigTimestamp(msgbuf)
        stream_key == <<link_id, srcSystem, srcComponent>>
        known == stream_key \in DOMAIN sg.stream_timestamps
        entered == IF known THEN sg
                   ELSE [sg EXCEPT !.stream_timestamps = (stream_key :> timestamp) @@ @]
        sig1 == Sha256Digest6(sg.secret_key, SubSeq(msgbuf, 1, Len(msgbuf) - 6))
        sig2 == SigDigest(msgbuf)
    IN  IF known /\ OldTimestamp(timestamp, sg.stream_timestamps[stream_key])
        THEN [ok |-> FALSE, signing |-> sg]
        ELSE IF ~known /\ ImplausibleNewStream(timestamp, sg.timestamp)
        THEN [ok |-> FALSE, signing |-> sg]
        ELSE IF sig1 # sig2
        THEN [ok |-> FALSE, signing |-> entered]
        ELSE [ok |-> TRUE,
              signing |-> [entered EXCEPT !.timestamp = Max(@, timestamp)]]

(***************************************************************************)
(* MAVLink.decode.                                                         *)
(***************************************************************************)
\* to_string on bytes: UTF-8 text decodes to itself; bytes that are not valid
\* UTF-8 (0xFF, the only byte above 127 the model uses) end in '_XXX'
to_string(s) ==
    IF \A i \in 1..Len(s) : s[i] < 128 THEN s ELSE <<95, 88, 88, 88>>

\* str(MAVString(s)): the text up to its first NUL
MAVString(s) ==
    IF \E i \in 1..Len(s) : s[i] = 0
    THEN SubSeq(s, 1, (CHOOSE i \in 1..Len(s) : s[i] = 0 /\ \A j \in 1..(i - 1) : s[j] # 0) - 1)
    ELSE s

RECURSIVE SumPrefix(_, _)
SumPrefix(seq, n) == IF n = 0 THEN 0 ELSE seq[n] + SumPrefix(seq, n - 1)

\* the unpacked values t restored to declared order (the sort_fields block)
RestoreOrder(m, t) ==
    IF ~sort_fields THEN t
    ELSE IF SumPrefix(len_map(m), Len(len_map(m))) = Len(len_map(m))
    THEN [i \in 1..Len(t) |-> t[order_map(m)[i] + 1]]
    ELSE [i \in 1..Len(order_map(m)) |->
            LET order == order_map(m)[i]
                L == len_map(m)[order + 1]
                tip == SumPrefix(len_map(m), order)
            IN  IF L = 1 THEN t[tip + 1] ELSE SubSeq(t, tip + 1, tip + L)]

\* the "terminate any strings" loop
TerminateStrings(m, tlist) ==
    [i \in 1..Len(tlist) |->
        IF fieldtypes(m)[i] = "char" THEN Str(MAVString(to_string(tlist[i].v)))
        ELSE tlist[i]]

\* the header fields decode unpacks from the first bytes of msgbuf
UnpackHeader(msgbuf) ==
    IF msgbuf[1] # PROTOCOL_MARKER_V1
    THEN [headerlen |-> 10, magic |-> msgbuf[1], mlen |-> msgbuf[2],
          incompat_flags |-> msgbuf[3], compat_flags |-> msgbuf[4], seq |-> msgbuf[5],
          srcSystem |-> msgbuf[6], srcComponent |-> msgbuf[7],
          msgId |-> UnpackU16(SubSeq(msgbuf, 8, 9)) + 65536 * msgbuf[10]]
    ELSE [headerlen |-> 6, magic |-> msgbuf[1], mlen |-> msgbuf[2],
          incompat_flags |-> 0, compat_flags |-> 0, seq |-> msgbuf[3],
          srcSystem |-> msgbuf[4], srcComponent |-> msgbuf[5], msgId |-> msgbuf[6]]

\* a variant that asks the callback about every signed frame, verified or not
DecodeSigning_AsksAlways(sg, msgbuf, h, signature_len) ==
    LET isSigned == signature_len = MAVLINK_SIGNATURE_BLOCK_LEN
        counted == IF isSigned THEN [sg EXCEPT !.sig_count = @ + 1] ELSE sg
        asked == CallbackResult(sg.allow_unsigned_callback, h.msgId)
        afterCallback(s) == IF asked THEN [s EXCEPT !.unsigned_count = @ + 1]
                            ELSE [s EXCEPT !.reject_count = @ + 1]
    IN  IF sg.secret_key = NoKey
        THEN [signing |-> counted, sig_ok |-> FALSE, accept_signature |-> TRUE]
        ELSE IF isSigned
        THEN LET cs == check_signature(counted, msgbuf, h.srcSystem, h.srcComponent)
                 tallied == IF cs.ok THEN [cs.signing EXCEPT !.goodsig_count = @ + 1]
                            ELSE [cs.signing EXCEPT !.badsig_count = @ + 1]
             IN  IF sg.allow_unsigned_callback # NoCallback
                 THEN [signing |-> afterCallback(tallied), sig_ok |-> FALSE,
                       accept_signature |-> asked]
                 ELSE [signing |-> tallied, sig_ok |-> cs.ok, accept_signature |-> cs.ok]
        ELSE IF sg.allow_unsigned_callback # NoCallback
        THEN [signing |-> afterCallback(counted), sig_ok |-> FALSE,
              accept_signature |-> asked]
        ELSE [signing |-> counted, sig_ok |-> FALSE, accept_signature |-> FALSE]

\* a variant that lets unsigned frames through when no callback is installed
DecodeSigning_AcceptsUnsigned(sg, msgbuf, h, signature_len) ==
    LET isSigned == signature_len = MAVLINK_SIGNATURE_BLOCK_LEN
        counted == IF isSigned THEN [sg EXCEPT !.sig_count = @ + 1] ELSE sg
        asked == CallbackResult(sg.allow_unsigned_callback, h.msgId)
        afterCallback(s) == IF asked THEN [s EXCEPT !.unsigned_count = @ + 1]
                            ELSE [s EXCEPT !.reject_count = @ + 1]
    IN  IF sg.secret_key = NoKey
        THEN [signing |-> counted, sig_ok |-> FALSE, accept_signature |-> TRUE]
        ELSE IF isSigned
        THEN LET cs == check_signature(counted, msgbuf, h.srcSystem, h.srcComponent)
                 tallied == IF cs.ok THEN [cs.signing EXCEPT !.goodsig_count = @ + 1]
                            ELSE [cs.signing EXCEPT !.badsig_count = @ + 1]
             IN  IF ~cs.ok /\ sg.allow_unsigned_callback # NoCallback
                 THEN [signing |-> afterCallback(tallied), sig_ok |-> FALSE,
                       accept_signature |-> asked]
                 ELSE [signing |-> tallied, sig_ok |-> cs.ok, accept_signature |-> cs.ok]
        ELSE IF sg.allow_unsigned_callback # NoCallback
        THEN [signing |-> afterCallback(counted), sig_ok |-> FALSE,
              accept_signature |-> asked]
        ELSE [signing |-> counted, sig_ok |-> FALSE, accept_signature |-> TRUE]

\* the signing block of decode: [signing, sig_ok, accept_signature]
DecodeSigning(sg, msgbuf, h, signature_len) ==
    LET isSigned == signature_len = MAVLINK_SIGNATURE_BLOCK_LEN
        counted == IF isSigned THEN [sg EXCEPT !.sig_count = @ + 1] ELSE sg
        asked == CallbackResult(sg.allow_unsigned_callback, h.msgId)
        afterCallback(s) == IF asked THEN [s EXCEPT !.unsigned_count = @ + 1]
                            ELSE [s EXCEPT !.reject_count = @ + 1]
    IN  IF sg.secret_key = NoKey
        THEN [signing |-> counted, sig_ok |-> FALSE, accept_signature |-> TRUE]
        ELSE IF isSigned
        THEN LET cs == check_signature(counted, msgbuf, h.srcSystem, h.srcComponent)
                 tallied == IF cs.ok THEN [cs.signing EXCEPT !.goodsig_count = @ + 1]
                            ELSE [cs.signing EXCEPT !.badsig_count = @ + 1]
             IN  IF ~cs.ok /\ sg.allow_unsigned_callback # NoCallback
                 THEN [signing |-> afterCallback(tallied), sig_ok |-> FALSE,
                       accept_signature |-> asked]
                 ELSE [signing |-> tallied, sig_ok |-> cs.ok, accept_signature |-> cs.ok]
        ELSE IF sg.allow_unsigned_callback # NoCallback
        THEN [signing |-> afterCallback(counted), sig_ok |-> FALSE,
              accept_signature |-> asked]
        ELSE [signing |-> counted, sig_ok |-> FALSE, accept_signature |-> FALSE]

\* the payload of decode: slice, zero pad, cut to the unpacker's size, unpack
DecodePayload(m, msgbuf, headerlen, signature_len) ==
    LET csize == StructSize(fmtstr(m))
        mbuf == Slice(msgbuf, headerlen, Len(msgbuf) - (2 + signature_len))
        padded == IF Len(mbuf) < csize THEN mbuf \o Zeros(csize - Len(mbuf)) ELSE mbuf
        t == StructUnpack(fmtstr(m), SubSeq(padded, 1, csize))
    IN  TerminateStrings(m, RestoreOrder(m, t))

\* a variant that takes every checksum as good
CrcMismatch_Never(crc, crc2, ignore_crc) == crc # crc2 /\ ~ignore_crc /\ ignore_crc

\* the test of the checksum in the frame against the one computed
CrcMismatch(crc, crc2, ignore_crc) == crc # crc2 /\ ~ignore_crc

\* a variant that runs the signing step before it tests the checksum
decode_SigningFirst(sg, msgbuf, ignore_crc) ==
    LET h == UnpackHeader(msgbuf)
        signature_len == IF (h.incompat_flags % 2) # 0
                         THEN MAVLINK_SIGNATURE_BLOCK_LEN ELSE 0
        crc == UnpackU16(SubSeq(msgbuf, Len(msgbuf) - (2 + signature_len) + 1,
                                Len(msgbuf) - signature_len))
        m == mavlink_map(h.msgId)
        crcbuf == Slice(msgbuf, 1, Len(msgbuf) - (2 + signature_len))
        crc2 == IF crc_extra_enabled THEN x25crc(crcbuf \o <<m.crc_extra>>)
                ELSE x25crc(crcbuf)
        sgn == DecodeSigning(sg, msgbuf, h, signature_len)
        built == MessageInstance(m, DecodePayload(m, msgbuf, h.headerlen, signature_len))
    IN  IF Len(msgbuf) < h.headerlen
        THEN [signing |-> sg, ret |-> MAVError("Unable to unpack MAVLink header")]
        ELSE IF h.magic # PROTOCOL_MARKER_V1 /\ h.magic # PROTOCOL_MARKER_V2
        THEN [signing |-> sg, ret |-> MAVError("invalid MAVLink prefix")]
        ELSE IF h.mlen # Len(msgbuf) - (h.headerlen + 2 + signature_len)
        THEN [signing |-> sg, ret |-> MAVError("invalid MAVLink message length")]
        ELSE IF ~InMavlinkMap(h.msgId)
        THEN [signing |-> sg, ret |-> MAVLink_unknown(h.msgId, msgbuf)]
        ELSE IF CrcMismatch(crc, crc2, ignore_crc)
        THEN [signing |-> sgn.signing, ret |-> MAVError("invalid MAVLink CRC")]
        ELSE IF ~sgn.accept_signature
        THEN [signing |-> sgn.signing, ret |-> MAVError("Invalid signature")]
        ELSE [signing |-> sgn.signing,
              ret |-> [built EXCEPT
                         !.signed = sgn.sig_ok,
                         !.link_id = IF sgn.sig_ok THEN SigLinkId(msgbuf) ELSE NoneInt,
                         !.msgbuf = msgbuf,
                         !.payload = Slice(msgbuf, 6, Len(msgbuf) - (2 + signature_len)),
                         !.crc = crc,
                         !.header = MAVLink_header(h.msgId, h.incompat_flags, h.compat_flags,
                                                   h.mlen, h.seq, h.srcSystem, h.srcComponent)]]

\* decode: [signing, ret], ret the message or the MAVError raised
decode(sg, msgbuf, ignore_crc) ==
    LET h == UnpackHeader(msgbuf)
        signature_len == IF (h.incompat_flags % 2) # 0
                         THEN MAVLINK_SIGNATURE_BLOCK_LEN ELSE 0
        crc == UnpackU16(SubSeq(msgbuf, Len(msgbuf) - (2 + signature_len) + 1,
                                Len(msgbuf) - signature_len))
        m == mavlink_map(h.msgId)
        crcbuf == Slice(msgbuf, 1, Len(msgbuf) - (2 + signature_len))
        crc2 == IF crc_extra_enabled THEN x25crc(crcbuf \o <<m.crc_extra>>)
                ELSE x25crc(crcbuf)
        sgn == DecodeSigning(sg, msgbuf, h, signature_len)
        built == MessageInstance(m, DecodePayload(m, msgbuf, h.headerlen, signature_len))
    IN  IF Len(msgbuf) < h.headerlen
        THEN [signing |-> sg, ret |-> MAVError("Unable to unpack MAVLink header")]
        ELSE IF h.magic # PROTOCOL_MARKER_V1 /\ h.magic # PROTOCOL_MARKER_V2
        THEN [signing |-> sg, ret |-> MAVError("invalid MAVLink prefix")]
        ELSE IF h.mlen # Len(msgbuf) - (h.headerlen + 2 + signature_len)
        THEN [signing |-> sg, ret |-> MAVError("invalid MAVLink message length")]
        ELSE IF ~InMavlinkMap(h.msgId)
        THEN [signing |-> sg, ret |-> MAVLink_unknown(h.msgId, msgbuf)]
        ELSE IF CrcMismatch(crc, crc2, ignore_crc)
        THEN [signing |-> sg, ret |-> MAVError("invalid MAVLink CRC")]
        ELSE IF ~sgn.accept_signature
        THEN [signing |-> sgn.signing, ret |-> MAVError("Invalid signature")]
        ELSE [signing |-> sgn.signing,
              ret |-> [built EXCEPT
                         !.signed = sgn.sig_ok,
                         !.link_id = IF sgn.sig_ok THEN SigLinkId(msgbuf) ELSE NoneInt,
                         !.msgbuf = msgbuf,
                         !.payload = Slice(msgbuf, 6, Len(msgbuf) - (2 + signature_len)),
                         !.crc = crc,
                         !.header = MAVLink_header(h.msgId, h.incompat_flags, h.compat_flags,
                                                   h.mlen, h.seq, h.srcSystem, h.srcComponent)]]

(***************************************************************************)
(* The session: MAVLinkSigning.__init__ and MAVLink.__init__.              *)
(***************************************************************************)
MAVLinkSigning ==
    [secret_key |-> NoKey, timestamp |-> 0, link_id |-> 0, sign_outgoing |-> FALSE,
     allow_unsigned_callback |-> NoCallback, stream_timestamps |-> <<>>,
     sig_count |-> 0, badsig_count |-> 0, goodsig_count |-> 0,
     unsigned_count |-> 0, reject_count |-> 0]

MAVLink(srcSystem, srcComponent) ==
    [seq |-> 0, srcSystem |-> srcSystem, srcComponent |-> srcComponent,
     buf |-> <<>>, buf_index |-> 0, expected_length |-> HEADER_LEN_V1 + 2,
     have_prefix_error |-> FALSE, robust_parsing |-> FALSE,
     total_packets_sent |-> 0, total_bytes_sent |-> 0,
     total_packets_received |-> 0, total_bytes_received |-> 0,
     total_receive_errors |-> 0]

\* no call made yet
NoCall == [op |-> "none", arg |-> <<>>, n |-> 0]
\* no message sent yet
NoMessage == MAVLink_message(MAVLINK_MSG_ID_BAD_DATA, "none")

(***************************************************************************)
(* Bounds of the model and the inputs drawn within them.                   *)
(***************************************************************************)
\* calls made on one session in a behaviour
MaxCalls == 3

\* the session's and the peers' identities
LocalSystem == 1
PeerSystem == 2
Component == 1

\* the session's key and a key it does not hold
SessionKey == <<11, 22>>
OtherKey == <<33, 44>>

\* a session clock far enough on for old first-seen streams to be implausible
LateClock == 6000002

\* the frame a peer running this library sends: message m with values, signed
\* with key on link link_id at timestamp ts when key is a key
PeerFrame(wire_version, m, values, seq, key, link_id, ts, force_mavlink1) ==
    MessagePack(wire_version, m, MessageInstance(m, values),
                [MAVLink(PeerSystem, Component) EXCEPT !.seq = seq],
                [MAVLinkSigning EXCEPT !.secret_key = key, !.link_id = link_id,
                                       !.timestamp = ts, !.sign_outgoing = key # NoKey],
                force_mavlink1).msg.msgbuf

\* signed frames of peers: two links, two timestamps, the right and a wrong key
SignedPeerFrames ==
    {PeerFrame("2.0", MsgValue, <<42>>, 0, k, l, ts, FALSE) :
        k \in {SessionKey, OtherKey}, l \in {1, 2}, ts \in {1, 2}}

\* unsigned frames of peers, V2 and V1
UnsignedPeerFrames ==
    {PeerFrame("2.0", MsgValue, <<42>>, 0, NoKey, 0, 0, FALSE),
     PeerFrame("1.0", MsgValue, <<42>>, 0, NoKey, 0, 0, FALSE)}

(***************************************************************************)
(* The calls on a session.                                                 *)
(***************************************************************************)
\* mav.decode(msgbuf), called directly
Decode(msgbuf) ==
    /\ call.n < MaxCalls
    /\ LET d == decode(signing, msgbuf, MAVLINK_IGNORE_CRC)
       IN  /\ signing' = d.signing
           /\ ret' = d.ret
    /\ call' = [op |-> "decode", arg |-> msgbuf, n |-> call.n + 1]
    /\ UNCHANGED <<globals, mav, file, mavmsg, stream, fed, delivered>>

(***************************************************************************)
(* SpecSigning: a session, configured for signing or not, decoding the     *)
(* frames of its peers.                                                    *)
(***************************************************************************)
InitSigning ==
    /\ WIRE_PROTOCOL_VERSION = "2.0"
    /\ MAVLINK_IGNORE_CRC = FALSE
    /\ mav = MAVLink(LocalSystem, Component)
    /\ \E key \in {NoKey, SessionKey}, ts \in {0, LateClock},
          cb \in {NoCallback} \cup Callbacks :
            signing = [MAVLinkSigning EXCEPT !.secret_key = key, !.timestamp = ts,
                                             !.allow_unsigned_callback = cb]
    /\ file = <<>>
    /\ mavmsg = NoMessage
    /\ stream = <<>>
    /\ fed = 0
    /\ delivered = <<>>
    /\ call = NoCall
    /\ ret = RetNone

NextSigning ==
    \/ \E f \in SignedPeerFrames : Decode(f)
    \/ \E f \in UnsignedPeerFrames : Decode(f)

SpecSigning == InitSigning /\ [][NextSigning]_vars

(***************************************************************************)
(* MAVLink.send and MAVLink_message.__eq__.                                *)
(***************************************************************************)
\* send: [mav, signing, mavmsg, file] after mavmsg.pack, file.write and the
\* counters
\* a variant that lets the sequence number run past 255
send_NoWrap(wire_version, mv, sg, m, msg, force_mavlink1) ==
    LET p == MessagePack(wire_version, m, msg, mv, sg, force_mavlink1)
        buf == p.msg.msgbuf
    IN  [mav |-> [mv EXCEPT !.seq = mv.seq + 1,
                            !.total_packets_sent = @ + 1,
                            !.total_bytes_sent = @ + Len(buf)],
         signing |-> p.signing, mavmsg |-> p.msg, file |-> buf]

send(wire_version, mv, sg, m, msg, force_mavlink1) ==
    LET p == MessagePack(wire_version, m, msg, mv, sg, force_mavlink1)
        buf == p.msg.msgbuf
    IN  [mav |-> [mv EXCEPT !.seq = (mv.seq + 1) % 256,
                            !.total_packets_sent = @ + 1,
                            !.total_bytes_sent = @ + Len(buf)],
         signing |-> p.signing, mavmsg |-> p.msg, file |-> buf]

\* str.rstrip("\x00")
RECURSIVE RStripNul(_)
RStripNul(s) ==
    IF s # <<>> /\ s[Len(s)] = 0 THEN RStripNul(SubSeq(s, 1, Len(s) - 1)) ELSE s

\* format_attr: a bytes attribute is shown as text without its trailing NULs
format_attr(type, raw_attr) ==
    IF type = "char"
    THEN IF raw_attr.py = "bytes" THEN Str(RStripNul(to_string(raw_attr.v))) ELSE raw_attr
    ELSE raw_attr

\* __eq__ of two messages (other is not None); the CRC is not compared
MessageEq(self, other) ==
    /\ self.type = other.type
    /\ self.header.seq = other.header.seq
    /\ self.header.srcSystem = other.header.srcSystem
    /\ self.header.srcComponent = other.header.srcComponent
    /\ LET m == mavlink_map(self.header.msgId)
       IN  \A i \in 1..Len(m.fields) :
              format_attr(m.fields[i].type, self.fields[i])
                  = format_attr(m.fields[i].type, other.fields[i])

\* mav.send(mavmsg, force_mavlink1) of a new instance of message m
\* (call.arg keeps force_mavlink1 as the byte 1 or 0)
Send(m, values, force_mavlink1) ==
    /\ call.n < MaxCalls
    /\ LET s == send(WIRE_PROTOCOL_VERSION, mav, signing, m, MessageInstance(m, values),
                     force_mavlink1)
       IN  /\ mav' = s.mav
           /\ signing' = s.signing
           /\ mavmsg' = s.mavmsg
           /\ file' = s.file
    /\ ret' = RetNone
    /\ call' = [op |-> "send", arg |-> IF force_mavlink1 THEN <<1>> ELSE <<0>>,
                n |-> call.n + 1]
    /\ UNCHANGED <<globals, stream, fed, delivered>>

(***************************************************************************)
(* SpecCodec: a session without signing that sends messages and decodes    *)
(* the frame it has just packed.  SpecStripped: such a session decoding    *)
(* the V2 frames of a peer that strips none, some or all of the payload's  *)
(* trailing zero bytes.                                                    *)
(***************************************************************************)
\* the field values a caller assigns, by message: zeros that trim, values of
\* both bytes of a uint16_t, texts shorter than and as long as the field, and a
\* text with a character after its NUL terminator
Assignments(m) ==
    IF m.id = 0 THEN {<<0>>, <<42>>}
    ELSE IF m.id = 1 THEN {<<a, b>> : a \in {0, 7}, b \in {0, 258}}
    ELSE {<<Bytes(<<>>), <<0, 0>>, 0>>, <<Bytes(<<97>>), <<0, 0>>, 513>>,
          <<Bytes(<<97, 98>>), <<1, 2>>, 513>>, <<Bytes(<<0, 97>>), <<0, 0>>, 0>>}

\* the serialized payload of an assignment, before any trimming
FullPayload(m, values) == StructPack(fmtstr(m), PackArgs(m, values, 1))

\* the V2 frame of a peer that sends the first plen bytes of the payload
PeerFrameV2(m, values, seq, plen) ==
    LET body == HeaderPack("2.0", MAVLink_header(m.id, 0, 0, plen, seq, PeerSystem, Component),
                           FALSE) \o Slice(FullPayload(m, values), 0, plen)
    IN  body \o PackU16(x25crc(Tail(body) \o <<m.crc_extra>>))

\* the peer's frames: every way of stripping trailing zeros from the payload,
\* down to pack's own trimming, each with the frame carrying the full payload
StrippedPeerFrames ==
    UNION {UNION {{[m |-> msgs[i], values |-> v, plen |-> plen,
                    frame |-> PeerFrameV2(msgs[i], v, seq, plen),
                    untrimmed |-> PeerFrameV2(msgs[i], v, seq, Len(FullPayload(msgs[i], v)))] :
                     seq \in {0, 255},
                     plen \in TrimLen(FullPayload(msgs[i], v), Len(FullPayload(msgs[i], v)))
                                ..Len(FullPayload(msgs[i], v))} :
                  v \in Assignments(msgs[i])} : i \in 1..Len(msgs)}

InitCodec ==
    /\ WIRE_PROTOCOL_VERSION \in {"1.0", "2.0"}
    /\ MAVLINK_IGNORE_CRC = FALSE
    /\ mav = MAVLink(LocalSystem, Component)
    /\ signing = MAVLinkSigning
    /\ file = <<>>
    /\ mavmsg = NoMessage
    /\ stream = <<>>
    /\ fed = 0
    /\ delivered = <<>>
    /\ call = NoCall
    /\ ret = RetNone

NextCodec ==
    \/ \E i \in 1..Len(msgs) : \E v \in Assignments(msgs[i]) : \E force_mavlink1 \in BOOLEAN :
          Send(msgs[i], v, force_mavlink1)
    \/ (mavmsg # NoMessage /\ Decode(mavmsg.msgbuf))

SpecCodec == InitCodec /\ [][NextCodec]_vars

NextStripped == \E f \in StrippedPeerFrames : Decode(f.frame)

SpecStripped == InitCodec /\ [][NextStripped]_vars

(***************************************************************************)
(* SpecSend: a session of either wire version, signing its frames or not,  *)
(* new or with 254 sends behind it, that sends messages.                   *)
(***************************************************************************)
\* sends a session may have behind it when the behaviour starts
SendsBefore == 254
\* the link id and the clock an application gives a session that signs
OutLinkId == 3
OutClock == 70000

\* the signing state of a session set up to sign its frames, or not
OutSigning(sign_outgoing) ==
    IF sign_outgoing
    THEN [MAVLinkSigning EXCEPT !.secret_key = SessionKey, !.sign_outgoing = TRUE,
                                !.link_id = OutLinkId, !.timestamp = OutClock]
    ELSE MAVLinkSigning

\* the session after n sends of one MsgValue message, none forced to V1, each
\* of which moves the session as the first does: [mav, signing]
AfterSends(wire_version, sign_outgoing, n) ==
    LET new == MAVLink(LocalSystem, Component)
        first == send(wire_version, new, OutSigning(sign_outgoing), MsgValue,
                      MessageInstance(MsgValue, <<42>>), FALSE)
    IN  [mav |-> [new EXCEPT !.seq = (n * first.mav.seq) % 256,
                             !.total_packets_sent = n * first.mav.total_packets_sent,
                             !.total_bytes_sent = n * first.mav.total_bytes_sent],
         signing |-> [OutSigning(sign_outgoing) EXCEPT
                         !.timestamp = @ + n * (first.signing.timestamp - @)]]

InitSend ==
    /\ WIRE_PROTOCOL_VERSION \in {"1.0", "2.0"}
    /\ MAVLINK_IGNORE_CRC = FALSE
    /\ \E sign_outgoing \in BOOLEAN, n \in {0, SendsBefore} :
          /\ mav = AfterSends(WIRE_PROTOCOL_VERSION, sign_outgoing, n).mav
          /\ signing = AfterSends(WIRE_PROTOCOL_VERSION, sign_outgoing, n).signing
    /\ file = <<>>
    /\ mavmsg = NoMessage
    /\ stream = <<>>
    /\ fed = 0
    /\ delivered = <<>>
    /\ call = NoCall
    /\ ret = RetNone

NextSend ==
    \E i \in 1..2 : \E v \in Assignments(msgs[i]) : \E force_mavlink1 \in BOOLEAN :
        Send(msgs[i], v, force_mavlink1)

SpecSend == InitSend /\ [][NextSend]_vars

(***************************************************************************)
(* The streaming parser: parse_char, __parse_char_legacy, parse_buffer.    *)
(***************************************************************************)
buf_len(mv) == Len(mv.buf) - mv.buf_index

\* the bytes of the buffer from the cursor on
Unconsumed(mv) == SubSeq(mv.buf, mv.buf_index + 1, Len(mv.buf))

IsMagic(b) == b = PROTOCOL_MARKER_V1 \/ b = PROTOCOL_MARKER_V2

\* a parse_buffer result: the list of messages
RetList(l) == [kind |-> "list", msgs |-> l]

\* a variant that does not count the placeholder as a receive error
BadPrefix_Uncounted(mv, header_len, magic) ==
    [mav |-> [mv EXCEPT !.buf_index = @ + 1, !.expected_length = header_len + 2],
     ret |-> IF mv.robust_parsing THEN MAVLink_bad_data(<<magic>>, "Bad prefix")
             ELSE MAVError("invalid MAVLink prefix")]

\* a variant that drops everything in the buffer along with the stray byte
BadPrefix_Swallow(mv, header_len, magic) ==
    [mav |-> [mv EXCEPT !.buf_index = Len(mv.buf), !.expected_length = header_len + 2,
                        !.total_receive_errors = @ + 1],
     ret |-> IF mv.robust_parsing THEN MAVLink_bad_data(<<magic>>, "Bad prefix")
             ELSE MAVError("invalid MAVLink prefix")]

\* a variant that, in strict mode, raises with the cursor still on the byte
BadPrefix_Stuck(mv, header_len, magic) ==
    IF mv.robust_parsing
    THEN [mav |-> [mv EXCEPT !.buf_index = @ + 1, !.expected_length = header_len + 2,
                             !.total_receive_errors = @ + 1],
          ret |-> MAVLink_bad_data(<<magic>>, "Bad prefix")]
    ELSE [mav |-> [mv EXCEPT !.have_prefix_error = TRUE, !.total_receive_errors = @ + 1],
          ret |-> MAVError("invalid MAVLink prefix")]

\* the bad-prefix block of __parse_char_legacy, magic the byte at the cursor:
\* [mav, ret]
BadPrefix(mv, header_len, magic) ==
    LET moved == [mv EXCEPT !.buf_index = @ + 1]
    IN  IF mv.robust_parsing
        THEN [mav |-> [moved EXCEPT !.expected_length = header_len + 2,
                                    !.total_receive_errors = @ + 1],
              ret |-> MAVLink_bad_data(<<magic>>, "Bad prefix")]
        ELSE IF mv.have_prefix_error
        THEN [mav |-> moved, ret |-> RetNone]
        ELSE [mav |-> [moved EXCEPT !.have_prefix_error = TRUE,
                                    !.total_receive_errors = @ + 1],
              ret |-> MAVError("invalid MAVLink prefix")]

\* a variant that leaves the two checksum bytes out of the length
ExpectedLength_NoChecksum(header_len, magic, mlen, incompat_flags) ==
    mlen + (IF magic = PROTOCOL_MARKER_V2 /\ (incompat_flags % 2) = MAVLINK_IFLAG_SIGNED
            THEN MAVLINK_SIGNATURE_BLOCK_LEN ELSE 0)
         + header_len

\* a variant that takes the third byte of a V1 frame for incompat flags
ExpectedLength_AnyMagic(header_len, magic, mlen, incompat_flags) ==
    mlen + (IF (incompat_flags % 2) = MAVLINK_IFLAG_SIGNED
            THEN MAVLINK_SIGNATURE_BLOCK_LEN ELSE 0)
         + header_len + 2

\* the expected length __parse_char_legacy computes from the first three bytes
ExpectedLength(header_len, magic, mlen, incompat_flags) ==
    mlen + (IF magic = PROTOCOL_MARKER_V2 /\ (incompat_flags % 2) = MAVLINK_IFLAG_SIGNED
            THEN MAVLINK_SIGNATURE_BLOCK_LEN ELSE 0)
         + header_len + 2

\* a variant whose placeholder carries only the candidate's header
Candidate_HeaderOnly(mv, sg, mbuf, magic, incompat_flags, ignore_crc) ==
    LET badflags == magic = PROTOCOL_MARKER_V2 /\ (incompat_flags \div 2) # 0
        d == decode(sg, mbuf, ignore_crc)
        head == SubSeq(mbuf, 1, HEADER_LEN_V1)
    IN  IF badflags
        THEN IF mv.robust_parsing
             THEN [mav |-> [mv EXCEPT !.total_receive_errors = @ + 1], signing |-> sg,
                   ret |-> MAVLink_bad_data(head, "invalid incompat_flags")]
             ELSE [mav |-> mv, signing |-> sg, ret |-> MAVError("invalid incompat_flags")]
        ELSE IF IsError(d.ret) /\ mv.robust_parsing
        THEN [mav |-> [mv EXCEPT !.total_receive_errors = @ + 1], signing |-> d.signing,
              ret |-> MAVLink_bad_data(head, d.ret.message)]
        ELSE [mav |-> mv, signing |-> d.signing, ret |-> d.ret]

\* the candidate frame mbuf handed on by __parse_char_legacy: [mav, signing, ret]
Candidate(mv, sg, mbuf, magic, incompat_flags, ignore_crc) ==
    LET badflags == magic = PROTOCOL_MARKER_V2 /\ (incompat_flags \div 2) # 0
        d == decode(sg, mbuf, ignore_crc)
    IN  IF badflags
        THEN IF mv.robust_parsing
             THEN [mav |-> [mv EXCEPT !.total_receive_errors = @ + 1], signing |-> sg,
                   ret |-> MAVLink_bad_data(mbuf, "invalid incompat_flags")]
             ELSE [mav |-> mv, signing |-> sg, ret |-> MAVError("invalid incompat_flags")]
        ELSE IF IsError(d.ret) /\ mv.robust_parsing
        THEN [mav |-> [mv EXCEPT !.total_receive_errors = @ + 1], signing |-> d.signing,
              ret |-> MAVLink_bad_data(mbuf, d.ret.message)]
        ELSE [mav |-> mv, signing |-> d.signing, ret |-> d.ret]

\* __parse_char_legacy: [mav, signing, ret]
parse_char_legacy(mv, sg, ignore_crc) ==
    LET first == mv.buf[mv.buf_index + 1]
        header_len == IF buf_len(mv) >= 1 /\ first = PROTOCOL_MARKER_V2
                      THEN HEADER_LEN_V2 ELSE HEADER_LEN_V1
    IN  IF buf_len(mv) >= 1 /\ first # PROTOCOL_MARKER_V1 /\ first # PROTOCOL_MARKER_V2
        THEN LET b == BadPrefix(mv, header_len, first)
             IN  [mav |-> b.mav, signing |-> sg, ret |-> b.ret]
        ELSE LET incompat_flags == mv.buf[mv.buf_index + 3]
                 expected_length ==
                     IF buf_len(mv) >= 3
                     THEN ExpectedLength(header_len, first, mv.buf[mv.buf_index + 2],
                                         incompat_flags)
                     ELSE mv.expected_length
                 cleared == [mv EXCEPT !.have_prefix_error = FALSE,
                                       !.expected_length = expected_length]
             IN  IF expected_length >= header_len + 2 /\ buf_len(mv) >= expected_length
                 THEN Candidate([cleared EXCEPT !.buf_index = @ + expected_length,
                                                !.expected_length = header_len + 2],
                                sg,
                                SubSeq(mv.buf, mv.buf_index + 1,
                                       mv.buf_index + expected_length),
                                first, incompat_flags, ignore_crc)
                 ELSE [mav |-> cleared, signing |-> sg, ret |-> RetNone]

\* a variant that releases the buffer whenever nothing is returned, bytes left
\* in it or not
ParseCharTail_ResetsEarly(r) ==
    IF IsMessage(r.ret)
    THEN [r EXCEPT !.mav.total_packets_received = @ + 1]
    ELSE IF r.ret.kind = "None" /\ r.mav.buf_index # 0
    THEN [r EXCEPT !.mav.buf = <<>>, !.mav.buf_index = 0]
    ELSE r

\* a variant that empties the buffer whenever a message is returned
ParseCharTail_DropsRest(r) ==
    IF IsMessage(r.ret)
    THEN [r EXCEPT !.mav.total_packets_received = @ + 1,
                   !.mav.buf = <<>>, !.mav.buf_index = 0]
    ELSE IF r.ret.kind = "None" /\ buf_len(r.mav) = 0 /\ r.mav.buf_index # 0
    THEN [r EXCEPT !.mav.buf = <<>>, !.mav.buf_index = 0]
    ELSE r

\* the part of parse_char after __parse_char_legacy has returned r
ParseCharTail(r) ==
    IF IsMessage(r.ret)
    THEN [r EXCEPT !.mav.total_packets_received = @ + 1]
    ELSE IF r.ret.kind = "None" /\ buf_len(r.mav) = 0 /\ r.mav.buf_index # 0
    THEN [r EXCEPT !.mav.buf = <<>>, !.mav.buf_index = 0]
    ELSE r

\* parse_char(c): [mav, signing, ret]; a MAVError leaves parse_char at once
parse_char(mv, sg, c, ignore_crc) ==
    ParseCharTail(parse_char_legacy([mv EXCEPT !.buf = @ \o c,
                                              !.total_bytes_received = @ + Len(c)],
                                    sg, ignore_crc))

\* parse_buffer after a parse_char call that came to r, acc the messages of
\* the calls before: [mav, signing, ret, msgs], msgs the messages parse_char
\* returned (and the callback saw) even when a later call raised
RECURSIVE ParseRest(_, _, _, _)
\* a variant that returns after the first result, without asking for more
ParseBufferStep_Stops(r, ignore_crc, acc) ==
    [mav |-> r.mav, signing |-> r.signing,
     msgs |-> IF IsMessage(r.ret) THEN Append(acc, r.ret) ELSE acc,
     ret |-> IF IsError(r.ret) THEN r.ret
             ELSE IF IsMessage(r.ret) THEN RetList(Append(acc, r.ret))
             ELSE IF acc = <<>> THEN RetNone ELSE RetList(acc)]

ParseBufferStep(r, ignore_crc, acc) ==
    IF IsMessage(r.ret) THEN ParseRest(r.mav, r.signing, ignore_crc, Append(acc, r.ret))
    ELSE [mav |-> r.mav, signing |-> r.signing, msgs |-> acc,
          ret |-> IF IsError(r.ret) THEN r.ret
                  ELSE IF acc = <<>> THEN RetNone ELSE RetList(acc)]

\* the while loop of parse_buffer: parse_char("") until it returns None
ParseRest(mv, sg, ignore_crc, acc) ==
    ParseBufferStep(parse_char(mv, sg, <<>>, ignore_crc), ignore_crc, acc)

\* parse_buffer(s)
parse_buffer(mv, sg, s, ignore_crc) ==
    ParseBufferStep(parse_char(mv, sg, s, ignore_crc), ignore_crc, <<>>)

(***************************************************************************)
(* SpecParser: a session without signing, robust or strict, fed a byte     *)
(* stream in chunks: garbage, one frame of a peer, garbage again.          *)
(***************************************************************************)
\* the longest run of garbage before the frame
MaxGarbage == 2
\* the largest chunk fed short of the whole remainder
MaxChunk == 2
\* parse_char and parse_buffer calls in a behaviour
MaxFeeds == 5

\* garbage bytes: one that is no magic, and the V1 magic
GarbageBytes == {0, PROTOCOL_MARKER_V1}

\* the runs of at most n garbage bytes
RECURSIVE GarbageRuns(_)
GarbageRuns(n) ==
    IF n = 0 THEN {<<>>}
    ELSE GarbageRuns(n - 1)
            \cup {Append(g, b) : g \in {r \in GarbageRuns(n - 1) : Len(r) = n - 1},
                                 b \in GarbageBytes}

\* frames of a peer the session accepts: a V1 frame with an odd sequence
\* number (its third byte), and a V2 frame
ValidFrames ==
    {PeerFrame("1.0", MsgValue, <<42>>, 1, NoKey, 0, 0, FALSE),
     PeerFrame("2.0", MsgPair, <<7, 258>>, 0, NoKey, 0, 0, FALSE)}

\* a V2 frame with a signature block
SignedFrames == {PeerFrame("2.0", MsgValue, <<42>>, 0, OtherKey, 1, 1, FALSE)}

\* the streams: garbage, a frame, and no or one more garbage byte
Streams ==
    {g \o f \o t : g \in GarbageRuns(MaxGarbage), f \in ValidFrames \cup SignedFrames,
                   t \in {<<>>, <<0>>}}

\* the session after a parse_char call that came to r
Returned(r) ==
    /\ mav' = r.mav
    /\ signing' = r.signing
    /\ ret' = r.ret
    /\ delivered' = IF IsMessage(r.ret) THEN Append(delivered, r.ret) ELSE delivered

\* mav.parse_char(c), c the next k bytes of the stream
ParseChar(k) ==
    /\ call.n < MaxFeeds
    /\ fed + k <= Len(stream)
    /\ Returned(parse_char(mav, signing, SubSeq(stream, fed + 1, fed + k), MAVLINK_IGNORE_CRC))
    /\ call' = [op |-> "parse_char", arg |-> SubSeq(stream, fed + 1, fed + k), n |-> call.n + 1]
    /\ fed' = fed + k
    /\ UNCHANGED <<globals, file, mavmsg, stream>>

\* the session after a parse_buffer call that came to r
ReturnedList(r) ==
    /\ mav' = r.mav
    /\ signing' = r.signing
    /\ ret' = r.ret
    /\ delivered' = delivered \o r.msgs

\* mav.parse_buffer(s), s the next k bytes of the stream
ParseBuffer(k) ==
    /\ call.n < MaxFeeds
    /\ fed + k <= Len(stream)
    /\ ReturnedList(parse_buffer(mav, signing, SubSeq(stream, fed + 1, fed + k),
                                 MAVLINK_IGNORE_CRC))
    /\ call' = [op |-> "parse_buffer", arg |-> SubSeq(stream, fed + 1, fed + k),
                n |-> call.n + 1]
    /\ fed' = fed + k
    /\ UNCHANGED <<globals, file, mavmsg, stream>>

InitParser ==
    /\ WIRE_PROTOCOL_VERSION = "2.0"
    /\ MAVLINK_IGNORE_CRC = FALSE
    /\ \E robust \in BOOLEAN :
          mav = [MAVLink(LocalSystem, Component) EXCEPT !.robust_parsing = robust]
    /\ signing = MAVLinkSigning
    /\ file = <<>>
    /\ mavmsg = NoMessage
    /\ stream \in Streams
    /\ fed = 0
    /\ delivered = <<>>
    /\ call = NoCall
    /\ ret = RetNone

NextParser ==
    \/ \E k \in 0..MaxChunk : ParseChar(k)
    \/ ParseChar(Len(stream) - fed)
    \/ ParseBuffer(Len(stream) - fed)

SpecParser == InitParser /\ [][NextParser]_vars

(***************************************************************************)
(* SpecFaults: a session, robust or strict, with or without a key, fed in  *)
(* chunks a stream that opens with a frame of a message type it does not   *)
(* know, a frame damaged in transit, a frame with unsupported flags, a     *)
(* signed frame or a stray byte, and goes on with a frame it accepts.      *)
(***************************************************************************)
\* messages of a newer dialect of the peer, absent from mavlink_map: one
\* whose id fits the V1 header, one that needs the 24 bit id of V2
MsgForeignV1 ==
    [id |-> 200, name |-> "FOREIGN_V1", crc_extra |-> 8,
     fields |-> <<Fld("value", "uint8_t", 0)>>, ordered_fieldnames |-> <<"value">>]
MsgForeign ==
    [id |-> 9999, name |-> "FOREIGN", crc_extra |-> 9,
     fields |-> <<Fld("value", "uint8_t", 0)>>, ordered_fieldnames |-> <<"value">>]

\* well-formed frames of those messages: V1, V2, and V2 with a signature block
UnknownFrames ==
    {PeerFrame("1.0", MsgForeignV1, <<5>>, 0, NoKey, 0, 0, FALSE),
     PeerFrame("2.0", MsgForeign, <<5>>, 0, NoKey, 0, 0, FALSE),
     PeerFrame("2.0", MsgForeign, <<5>>, 0, OtherKey, 1, 1, FALSE)}

\* the frame with bit `bit` of its byte at index pos (from 1) flipped in transit
FlipBit(f, pos, bit) == [f EXCEPT ![pos] = Xor(@, 2 ^ bit)]

\* the V2 frame with an incompat flag this library does not know
WithUnknownFlag(f) == [f EXCEPT ![3] = 2]

\* a frame the session accepts when it holds no key
PlainFrame == PeerFrame("1.0", MsgValue, <<42>>, 1, NoKey, 0, 0, FALSE)
\* a frame signed with the session's key
KeyedFrame == PeerFrame("2.0", MsgValue, <<42>>, 0, SessionKey, 1, 1, FALSE)

\* frames a strict session raises on
DamagedFrames ==
    {FlipBit(PlainFrame, HEADER_LEN_V1 + 1, 0),
     FlipBit(KeyedFrame, HEADER_LEN_V2 + 1, 7),
     WithUnknownFlag(PeerFrame("2.0", MsgPair, <<7, 258>>, 0, NoKey, 0, 0, FALSE))}

\* the streams: one such opening, then nothing or a frame the session accepts
FaultStreams ==
    {f \o t : f \in UnknownFrames \cup DamagedFrames \cup {<<0>>, KeyedFrame},
              t \in {<<>>, PlainFrame, KeyedFrame}}

InitFaults ==
    /\ WIRE_PROTOCOL_VERSION = "2.0"
    /\ MAVLINK_IGNORE_CRC = FALSE
    /\ \E robust \in BOOLEAN :
          mav = [MAVLink(LocalSystem, Component) EXCEPT !.robust_parsing = robust]
    /\ \E key \in {NoKey, SessionKey} :
          signing = [MAVLinkSigning EXCEPT !.secret_key = key]
    /\ file = <<>>
    /\ mavmsg = NoMessage
    /\ stream \in FaultStreams
    /\ fed = 0
    /\ delivered = <<>>
    /\ call = NoCall
    /\ ret = RetNone

NextFaults ==
    \/ \E k \in 0..MaxChunk : ParseChar(k)
    \/ \E k \in 0..MaxChunk : ParseBuffer(k)
    \/ ParseChar(Len(stream) - fed)
    \/ ParseBuffer(Len(stream) - fed)
    \/ \E f \in UnknownFrames : Decode(f)

SpecFaults == InitFaults /\ [][NextFaults]_vars

(***************************************************************************)
(* SpecFlips: a session, with or without a key, decoding frames of known   *)
(* message types as their peer packed them and with one bit of one payload *)
(* byte flipped in transit.                                                *)
(***************************************************************************)
\* frames of the three message types: V1, V2, V2 signed
FlipFrames ==
    {PlainFrame, KeyedFrame,
     PeerFrame("2.0", MsgPair, <<7, 258>>, 0, NoKey, 0, 0, FALSE),
     PeerFrame("2.0", MsgBlob, <<Bytes(<<97, 98>>), <<1, 2>>, 513>>, 0, NoKey, 0, 0, FALSE)}

\* the indices (from 1) of the payload bytes of frame f
PayloadIndices(f) ==
    LET header_len == IF f[1] = PROTOCOL_MARKER_V1 THEN HEADER_LEN_V1 ELSE HEADER_LEN_V2
    IN  (header_len + 1)..(header_len + f[2])

InitFlips ==
    /\ WIRE_PROTOCOL_VERSION = "2.0"
    /\ MAVLINK_IGNORE_CRC = FALSE
    /\ mav = MAVLink(LocalSystem, Component)
    /\ \E key \in {NoKey, SessionKey} :
          signing = [MAVLinkSigning EXCEPT !.secret_key = key]
    /\ file = <<>>
    /\ mavmsg = NoMessage
    /\ stream = <<>>
    /\ fed = 0
    /\ delivered = <<>>
    /\ call = NoCall
    /\ ret = RetNone

NextFlips ==
    \/ \E f \in FlipFrames : Decode(f)
    \/ \E f \in FlipFrames : \E pos \in PayloadIndices(f), bit \in 0..7 :
          Decode(FlipBit(f, pos, bit))

SpecFlips == InitFlips /\ [][NextFlips]_vars

(***************************************************************************)
(* SpecDamaged: a session, configured for signing or not, decoding the     *)
(* frames of its peers as they were packed and with a payload bit flipped. *)
(***************************************************************************)
\* frames of peers with the low bit of the first payload byte flipped: one
\* signed with the session's key, one signed with another key, one unsigned
DamagedPeerFrames ==
    {FlipBit(f, HEADER_LEN_V2 + 1, 0) :
        f \in {PeerFrame("2.0", MsgValue, <<42>>, 0, SessionKey, 1, 1, FALSE),
               PeerFrame("2.0", MsgValue, <<42>>, 0, OtherKey, 2, 2, FALSE),
               PeerFrame("2.0", MsgValue, <<42>>, 0, NoKey, 0, 0, FALSE)}}

NextDamaged ==
    \/ NextSigning
    \/ \E f \in DamagedPeerFrames : Decode(f)

SpecDamaged == InitSigning /\ [][NextDamaged]_vars

(***************************************************************************)
(* SpecExchange: a session that signs what it sends and decodes the signed *)
(* frames of its peers, in any order.                                      *)
(***************************************************************************)
\* a clock the application may have set the session to, ahead of some of the
\* peers' timestamps and behind others
ExchangeClock == 5
\* a timestamp of a peer ahead of that clock
AheadTimestamp == 9

\* the signed frames of peers, and one with the timestamp that is ahead
ExchangeFrames ==
    SignedPeerFrames
        \cup {PeerFrame("2.0", MsgValue, <<42>>, 0, SessionKey, 1, AheadTimestamp, FALSE)}

InitExchange ==
    /\ WIRE_PROTOCOL_VERSION = "2.0"
    /\ MAVLINK_IGNORE_CRC = FALSE
    /\ mav = MAVLink(LocalSystem, Component)
    /\ \E ts \in {0, ExchangeClock}, cb \in {NoCallback, "accept"} :
          signing = [OutSigning(TRUE) EXCEPT !.timestamp = ts,
                                            !.allow_unsigned_callback = cb]
    /\ file = <<>>
    /\ mavmsg = NoMessage
    /\ stream = <<>>
    /\ fed = 0
    /\ delivered = <<>>
    /\ call = NoCall
    /\ ret = RetNone

NextExchange ==
    \/ \E force_mavlink1 \in BOOLEAN : Send(MsgValue, <<42>>, force_mavlink1)
    \/ \E f \in ExchangeFrames : Decode(f)

SpecExchange == InitExchange /\ [][NextExchange]_vars

(***************************************************************************)
(* SpecTrim: a session of either wire version sending messages of the      *)
(* dialect and a message without fields, V1 forced or not.                 *)
(***************************************************************************)
\* a message without fields: its serialized payload is empty
MsgEmpty ==
    [id |-> 3, name |-> "EMPTY", crc_extra |-> 17, fields |-> <<>>,
     ordered_fieldnames |-> <<>>]

NextTrim ==
    \/ \E i \in 1..Len(msgs) : \E v \in Assignments(msgs[i]) : \E force_mavlink1 \in BOOLEAN :
          Send(msgs[i], v, force_mavlink1)
    \/ \E force_mavlink1 \in BOOLEAN : Send(MsgEmpty, <<>>, force_mavlink1)

SpecTrim == InitCodec /\ [][NextTrim]_vars

(***************************************************************************)
(* SpecCandidates: the session of SpecParser, which besides being fed its  *)
(* stream has decode called on buffers that are no frames.                 *)
(***************************************************************************)
\* buffers handed to decode directly: a V2 frame with another first byte, a
\* frame cut short by a byte, a frame with a byte too many
MalformedBuffers ==
    {[PeerFrame("2.0", MsgPair, <<7, 258>>, 0, NoKey, 0, 0, FALSE) EXCEPT ![1] = 0],
     SubSeq(PlainFrame, 1, Len(PlainFrame) - 1),
     PlainFrame \o <<0>>}

NextCandidates ==
    \/ NextParser
    \/ \E b \in MalformedBuffers : Decode(b)

SpecCandidates == InitParser /\ [][NextCandidates]_vars

(***************************************************************************)
(* SpecForeign: the session of SpecSigning, which also decodes frames of   *)
(* message types it does not know.                                         *)
(***************************************************************************)
NextForeign ==
    \/ NextSigning
    \/ \E f \in UnknownFrames : Decode(f)

SpecForeign == InitSigning /\ [][NextForeign]_vars

(***************************************************************************)
(* Streams that end inside a frame, fed to parse_buffer in chunks or at    *)
(* once: a call returns with the opening bytes of a frame left unconsumed. *)
(***************************************************************************)
\* the lengths at which the last frame of a stream is cut off
OpeningLengths == {0, 1, 2, 5}

DrainStreams ==
    {s \o SubSeq(PlainFrame, 1, n) : s \in FaultStreams, n \in OpeningLengths}

InitDrain ==
    /\ WIRE_PROTOCOL_VERSION = "2.0"
    /\ MAVLINK_IGNORE_CRC = FALSE
    /\ \E robust \in BOOLEAN :
          mav = [MAVLink(LocalSystem, Component) EXCEPT !.robust_parsing = robust]
    /\ \E key \in {NoKey, SessionKey} :
          signing = [MAVLinkSigning EXCEPT !.secret_key = key]
    /\ file = <<>>
    /\ mavmsg = NoMessage
    /\ stream \in DrainStreams
    /\ fed = 0
    /\ delivered = <<>>
    /\ call = NoCall
    /\ ret = RetNone

NextDrain ==
    \/ \E k \in 0..MaxChunk : ParseChar(k)
    \/ \E k \in 0..MaxChunk : ParseBuffer(k)
    \/ ParseBuffer(Len(stream) - fed)

SpecDrain == InitDrain /\ [][NextDrain]_vars

(***************************************************************************)
(* What the claims about signing speak of.                                 *)
(***************************************************************************)
\* the frame is a V2 frame with the signed incompat flag set
IsSignedFrame(f) == Len(f) >= 3 /\ f[1] = PROTOCOL_MARKER_V2 /\ (f[3] % 2) = 1
\* the stream key check_signature derives from a signed V2 frame
StreamKey(f) == <<SigLinkId(f), f[6], f[7]>>
\* the frame's digest is the one the session's key gives
ValidlySigned(f) ==
    /\ IsSignedFrame(f)
    /\ signing.secret_key # NoKey
    /\ SigDigest(f) = Sha256Digest6(signing.secret_key, SubSeq(f, 1, Len(f) - 6))
\* the last call was a decode whose signature check passed
SignatureAccepted == call.op = "decode" /\ IsMessage(ret) /\ ret.signed

\* C1 (as claimed): whenever a signed frame with timestamp T has just been
\* accepted on a stream key, the replay table's entry for that key is T, for a
\* key that was already known as for a first-seen one.
C1_ReplayEntryIsAcceptedTimestamp ==
    SignatureAccepted =>
        /\ StreamKey(call.arg) \in DOMAIN signing.stream_timestamps
        /\ signing.stream_timestamps[StreamKey(call.arg)] = SigTimestamp(call.arg)

\* C2 (as claimed): with a secret key and no allow-unsigned callback, a validly
\* signed frame that decode has just accepted is rejected when it is submitted
\* again as the very next call.
C2_SameFrameTwiceRejected ==
    [][(/\ signing.allow_unsigned_callback = NoCallback
        /\ ValidlySigned(call.arg)
        /\ SignatureAccepted
        /\ call'.op = "decode"
        /\ call'.arg = call.arg)
       => IsError(ret')]_vars

\* C3: for a stream key that is not in the replay table, a frame with a correct
\* digest passes check_signature exactly when its timestamp + 6,000,000 is at
\* least the session's current timestamp.
C3_NewStreamTolerance ==
    [][(/\ call'.op = "decode"
        /\ ValidlySigned(call'.arg)
        /\ StreamKey(call'.arg) \notin DOMAIN signing.stream_timestamps)
       => ((signing'.goodsig_count = signing.goodsig_count + 1)
            <=> (SigTimestamp(call'.arg) + 6000000 >= signing.timestamp))]_vars

\* C3 witness: a first-seen stream's frame exactly 6,000,000 ticks behind the
\* session's clock has been accepted.
C3_Witness ==
    /\ SignatureAccepted
    /\ signing.goodsig_count = 1
    /\ SigTimestamp(call.arg) + 6000000 = signing.timestamp

\* C4 (as claimed): with no secret key and no allow-unsigned callback, decode
\* of a frame whose signed flag is set raises the invalid-signature error.
C4_SignedFrameWithoutKeyRejected ==
    (/\ call.op = "decode"
     /\ signing.secret_key = NoKey
     /\ signing.allow_unsigned_callback = NoCallback
     /\ IsSignedFrame(call.arg))
    => (IsError(ret) /\ ret.message = "Invalid signature")

(***************************************************************************)
(* What the claims about the codec speak of.                               *)
(***************************************************************************)
\* a valid assignment: every text fits its field and has nothing after its
\* NUL terminator (the integers of Assignments all fit their types)
ValidAssignment(msg) ==
    LET m == mavlink_map(msg.header.msgId)
    IN  \A i \in 1..Len(m.fields) :
           m.fields[i].type = "char" =>
              /\ Len(msg.fields[i].v) <= m.fields[i].array_length
              /\ \A j \in 1..Len(RStripNul(msg.fields[i].v)) : msg.fields[i].v[j] # 0
\* the last call decoded the frame the last send packed
RoundTripped == call.op = "decode" /\ mavmsg # NoMessage /\ call.arg = mavmsg.msgbuf

\* C5: decoding the frame pack produced for a valid assignment m (V1 or V2,
\* trimmed or not) gives a message that __eq__ finds equal to m -- same type,
\* sequence number, source system, source component and every field value --
\* and that carries the checksum pack computed.
C5_RoundTrip ==
    (RoundTripped /\ ValidAssignment(mavmsg)) =>
        /\ IsMessage(ret)
        /\ MessageEq(ret, mavmsg)
        /\ MessageEq(mavmsg, ret)
        /\ ret.crc = mavmsg.crc

\* C5 witness: a V2 frame whose payload pack trimmed, sent with a sequence
\* number other than 0, has been decoded back
C5_Witness ==
    /\ RoundTripped
    /\ IsMessage(ret)
    /\ ret.type = "BLOB"
    /\ mavmsg.msgbuf[1] = PROTOCOL_MARKER_V2
    /\ mavmsg.header.mlen < StructSize(fmtstr(MsgBlob))
    /\ mavmsg.header.seq > 0

\* C6: a V2 frame whose payload has lost some or all of its trailing zero
\* bytes decodes to a message with the same field values as the frame that
\* carries the whole payload.
C6_StrippedDecodesAsUntrimmed ==
    \A f \in StrippedPeerFrames :
        (call.op = "decode" /\ call.arg = f.frame) =>
            /\ IsMessage(ret)
            /\ LET u == decode(MAVLinkSigning, f.untrimmed, FALSE).ret
               IN  /\ IsMessage(u)
                   /\ ret.type = u.type
                   /\ ret.fields = u.fields

\* C6 witness: a frame with fewer payload bytes than the schema's size, some
\* of the fields it lost being nonzero fields' zero tails, has been decoded
C6_Witness ==
    /\ call.op = "decode"
    /\ IsMessage(ret)
    /\ ret.type = "BLOB"
    /\ ret.header.mlen = 3
    /\ ret.fields = <<Str(<<97>>), <<0, 0>>, 513>>

(***************************************************************************)
(* What the claims about the streaming parser speak of.                    *)
(***************************************************************************)
\* everything is fed and an empty feed would bring nothing more
Settled ==
    /\ fed = Len(stream)
    /\ parse_char(mav, signing, <<>>, MAVLINK_IGNORE_CRC).ret.kind = "None"
\* the decoded (non-placeholder) messages among msgs
Decoded(l) == {i \in 1..Len(l) : l[i].type \notin {"BAD_DATA", "UNKNOWN"}}
\* the garbage runs without a magic byte
PlainRuns == {g \in GarbageRuns(MaxGarbage) : \A i \in 1..Len(g) : ~IsMagic(g[i])}
\* the number of bytes before the first magic byte of s
RECURSIVE LeadingRun(_)
LeadingRun(s) == IF s = <<>> \/ IsMagic(Head(s)) THEN 0 ELSE 1 + LeadingRun(Tail(s))
\* the bytes consumed so far
Consumed == fed - buf_len(mav)
\* the total length the header bytes of b announce for a frame
Need(b) ==
    (IF b[1] = PROTOCOL_MARKER_V2 THEN 10 ELSE 6) + b[2] + 2
        + (IF b[1] = PROTOCOL_MARKER_V2 /\ (b[3] % 2) = 1 THEN 13 ELSE 0)

\* C7 (as claimed): in robust mode, once a stream of N garbage bytes of any
\* values and one valid frame is fed and worked off, exactly one decoded
\* message has been yielded and the receive-error counter stands at N.
C7_GarbageThenFrame_AnyGarbage ==
    \A g \in GarbageRuns(MaxGarbage), f \in ValidFrames :
        (mav.robust_parsing /\ stream = g \o f /\ Settled) =>
            /\ Cardinality(Decoded(delivered)) = 1
            /\ mav.total_receive_errors = Len(g)

\* C7 (amended): in robust mode, once a stream of N garbage bytes none of which
\* is the V1 or the V2 magic and one valid frame is fed and worked off,
\* exactly one decoded message has been yielded and the receive-error counter
\* stands at N.
C7_GarbageThenFrame ==
    \A g \in PlainRuns, f \in ValidFrames :
        (mav.robust_parsing /\ stream = g \o f /\ Settled) =>
            /\ Cardinality(Decoded(delivered)) = 1
            /\ delivered[Len(delivered)] = decode(MAVLinkSigning, f, FALSE).ret
            /\ mav.total_receive_errors = Len(g)

\* C7 witness: two garbage bytes and a frame have been worked off
C7_Witness ==
    /\ mav.robust_parsing
    /\ Settled
    /\ \E f \in ValidFrames : stream = <<0, 0>> \o f
    /\ mav.total_receive_errors = 2
    /\ Len(delivered) = 3
    /\ Decoded(delivered) = {3}

\* C8: in robust mode a parse_char call that finds a byte that is no magic at
\* the cursor consumes that byte alone and returns a bad-data placeholder
\* whose data is that one byte; and once a stream of one such byte and a valid
\* frame is worked off, a one-byte placeholder and then the frame's message
\* have been yielded, in this order.
C8_StrayByteIsOnePlaceholder ==
    /\ [][LET avail == Unconsumed(mav) \o call'.arg
          IN  (/\ call'.op = "parse_char"
               /\ mav.robust_parsing
               /\ avail # <<>>
               /\ ~IsMagic(Head(avail)))
              => /\ ret'.kind = "message"
                 /\ ret'.type = "BAD_DATA"
                 /\ ret'.data = <<Head(avail)>>
                 /\ Unconsumed(mav') = Tail(avail)]_vars
    /\ [](\A g \in PlainRuns, f \in ValidFrames :
             (mav.robust_parsing /\ Len(g) = 1 /\ stream = g \o f /\ Settled)
             => /\ Len(delivered) = 2
                /\ delivered[1].type = "BAD_DATA"
                /\ delivered[1].data = g
                /\ delivered[2] = decode(MAVLinkSigning, f, FALSE).ret
                /\ delivered[2].type \notin {"BAD_DATA", "UNKNOWN"})

\* C8 witness: the stray byte and the frame arrived in one chunk; the call
\* after the placeholder returned the frame's message
C8_Witness ==
    /\ mav.robust_parsing
    /\ \E f \in ValidFrames : stream = <<0>> \o f
    /\ Settled
    /\ call.op = "parse_char"
    /\ call.arg = <<>>
    /\ call.n = 2
    /\ Len(delivered) = 2
    /\ delivered[1].data = <<0>>
    /\ ret = delivered[2]
    /\ ret.type = "PAIR"

\* C9 (as claimed): in strict mode a parse_char call that finds at the cursor
\* a byte of the stream's leading run of non-magic bytes other than the run's
\* first byte does not raise, however the run was split into calls, empty
\* feeds included.
C9_OneErrorPerBadRun ==
    [][(/\ call'.op = "parse_char"
        /\ ~mav.robust_parsing
        /\ Unconsumed(mav) \o call'.arg # <<>>
        /\ Consumed >= 1
        /\ Consumed + 1 <= LeadingRun(stream))
       => ret'.kind = "None"]_vars

\* C10: a parse_char call that finds a magic byte at the cursor returns None
\* and leaves the unconsumed bytes as they are while fewer bytes are there
\* than header length + payload length + 2 (+ 13 for a V2 frame with the
\* signed flag); when that many are there it consumes exactly that many and
\* returns what became of the candidate.
C10_WaitsThenConsumesExactly ==
    [][LET avail == Unconsumed(mav) \o call'.arg
       IN  (/\ call'.op = "parse_char"
            /\ avail # <<>>
            /\ IsMagic(Head(avail)))
           => IF Len(avail) < 3 \/ Len(avail) < Need(avail)
              THEN /\ ret'.kind = "None"
                   /\ Unconsumed(mav') = avail
              ELSE /\ ret'.kind # "None"
                   /\ Unconsumed(mav') = SubSeq(avail, Need(avail) + 1, Len(avail))]_vars

\* C10 witness: a signed V2 frame arrived in more than one chunk; the calls
\* before the last returned nothing, the last returned its message and left
\* the byte after the frame unconsumed
C10_Witness ==
    /\ call.op = "parse_char"
    /\ stream # <<>>
    /\ stream[1] = PROTOCOL_MARKER_V2
    /\ stream[3] = MAVLINK_IFLAG_SIGNED
    /\ Len(call.arg) > 0
    /\ Len(call.arg) < fed
    /\ IsMessage(ret)
    /\ ret.type = "VALUE"
    /\ delivered = <<ret>>
    /\ mav.total_receive_errors = 0
    /\ Unconsumed(mav) = <<0>>

(***************************************************************************)
(* What the claims about faulty and unknown frames speak of.               *)
(***************************************************************************)
\* the message id written in the header bytes of frame f
FrameMsgId(f) ==
    IF f[1] = PROTOCOL_MARKER_V1 THEN f[6] ELSE f[8] + 256 * f[9] + 65536 * f[10]
\* the frame the stream opens with, when it opens with one of frames
Opening(frames) == {f \in frames : Len(f) <= Len(stream) /\ SubSeq(stream, 1, Len(f)) = f}
\* the placeholder expected for unknown frame f
UnknownPlaceholder(f) ==
    [MAVLink_message(MAVLINK_MSG_ID_UNKNOWN, "UNKNOWN") EXCEPT
        !.unknown_id = FrameMsgId(f), !.data = f, !.msgbuf = f]

\* C11: a well-formed frame whose message id is not in the registry comes back
\* as the unknown-message placeholder holding the frame's bytes and its id,
\* from decode called directly and from the parser, strict or robust, with or
\* without a key; nothing is raised and the receive-error counter stays as it
\* was.
C11_UnknownIdIsPlaceholder ==
    /\ call.op = "decode" => ret = UnknownPlaceholder(call.arg)
    /\ \A f \in Opening(UnknownFrames) :
          /\ Consumed <= Len(f) => ~IsError(ret) /\ mav.total_receive_errors = 0
          /\ fed >= Len(f) => delivered # <<>>
          /\ delivered # <<>> => delivered[1] = UnknownPlaceholder(f)

\* a strict session holding a key has been handed the placeholder of a foreign
\* signed V2 frame by parse_char
C11_Witness ==
    /\ ~mav.robust_parsing /\ signing.secret_key # NoKey
    /\ call.op = "parse_char" /\ IsMessage(ret) /\ ret.type = "UNKNOWN"
    /\ ret.unknown_id = 9999 /\ IsSignedFrame(ret.data)
    /\ mav.total_receive_errors = 0

\* the checksum written in frame f, and the one computed over its bytes from
\* the second to the end of the payload and the seed of its message type
StoredCrc(f) ==
    LET siglen == IF IsSignedFrame(f) THEN MAVLINK_SIGNATURE_BLOCK_LEN ELSE 0
    IN  f[Len(f) - siglen - 1] + 256 * f[Len(f) - siglen]
ComputedCrc(f) ==
    LET last == CHOOSE i \in PayloadIndices(f) : \A j \in PayloadIndices(f) : j <= i
    IN  x25crc(SubSeq(f, 2, last) \o <<mavlink_map(FrameMsgId(f)).crc_extra>>)
\* the frames decoded that are a valid frame with one payload bit flipped
Flipped(g) ==
    \E f \in FlipFrames : \E pos \in PayloadIndices(f), bit \in 0..7 : g = FlipBit(f, pos, bit)

\* C12: a valid frame of a known message type carries the checksum computed
\* over its bytes; with any single bit of a payload byte flipped the computed
\* checksum is no longer the one carried, and decode raises the checksum
\* error (MAVLINK_IGNORE_CRC off), while the frame as packed raises none.
C12_PayloadBitFlipRejected ==
    call.op = "decode" =>
        /\ call.arg \in FlipFrames =>
              /\ ComputedCrc(call.arg) = StoredCrc(call.arg)
              /\ ret # MAVError("invalid MAVLink CRC")
        /\ Flipped(call.arg) =>
              /\ ComputedCrc(call.arg) # StoredCrc(call.arg)
              /\ ret = MAVError("invalid MAVLink CRC")

\* the top bit of the last payload byte of the six byte payload was flipped
\* and decode has raised the checksum error
C12_Witness ==
    /\ call.op = "decode" /\ Flipped(call.arg) /\ call.arg[2] = 6
    /\ call.arg[HEADER_LEN_V2 + 6] >= 128
    /\ ret = MAVError("invalid MAVLink CRC")

(***************************************************************************)
(* What the claims about sending speak of.                                 *)
(***************************************************************************)
\* the sequence number written in the header bytes of frame f
FrameSeq(f) == IF f[1] = PROTOCOL_MARKER_V1 THEN f[3] ELSE f[5]
\* the length of frame f up to and including its checksum
UnsignedLen(f) ==
    (IF f[1] = PROTOCOL_MARKER_V1 THEN HEADER_LEN_V1 ELSE HEADER_LEN_V2) + f[2] + 2

\* C13: every send writes a frame whose header carries the sequence number
\* the session had, then moves the sequence number on by 1 modulo 256, the
\* packets-sent counter by 1 and the bytes-sent counter by the length of the
\* frame; so the k-th send of a session carries (k - 1) modulo 256, and the
\* sequence number is always within 0..255.
C13_SendStampsAndAdvances ==
    /\ [][call'.op = "send" =>
            /\ FrameSeq(file') = mav.seq
            /\ mavmsg'.header.seq = mav.seq
            /\ mav'.seq = (mav.seq + 1) % 256
            /\ mav'.total_packets_sent = mav.total_packets_sent + 1
            /\ mav'.total_bytes_sent = mav.total_bytes_sent + Len(file')]_vars
    /\ [](/\ mav.seq \in 0..255
          /\ mav.seq = mav.total_packets_sent % 256
          /\ call.op = "send" => FrameSeq(file) = (mav.total_packets_sent - 1) % 256)

\* the 257th send of a session has carried the sequence number 0, after the
\* 256th carried 255
C13_Witness ==
    /\ call.op = "send" /\ mav.total_packets_sent = 257
    /\ FrameSeq(file) = 0 /\ mav.seq = 1

\* C14: a send with outgoing signing on and V1 not forced writes, after the
\* checksum, exactly 13 bytes: the link id, the six low bytes of the session
\* timestamp least significant first, and the six byte digest of the key
\* followed by all the frame bytes before the digest; the timestamp goes up by
\* exactly 1.  A send with signing off or V1 forced writes nothing after the
\* checksum and leaves the timestamp as it was.
C14_SignatureBlockAppended ==
    [][call'.op = "send" =>
        IF signing.sign_outgoing /\ call'.arg = <<0>>
        THEN /\ Len(file') = UnsignedLen(file') + 13
             /\ SubSeq(file', UnsignedLen(file') + 1, Len(file'))
                   = <<signing.link_id>> \o LEBytes(signing.timestamp, 6)
                       \o Sha256Digest6(signing.secret_key,
                                        SubSeq(file', 1, UnsignedLen(file') + 7))
             /\ SubSeq(file', UnsignedLen(file') - 1, UnsignedLen(file'))
                   = <<mavmsg'.crc % 256, mavmsg'.crc \div 256>>
             /\ signing' = [signing EXCEPT !.timestamp = @ + 1]
        ELSE /\ Len(file') = UnsignedLen(file')
             /\ SubSeq(file', UnsignedLen(file') - 1, UnsignedLen(file'))
                   = <<mavmsg'.crc % 256, mavmsg'.crc \div 256>>
             /\ signing' = signing]_vars

\* a signing session has sent a frame not forced to V1: 13 bytes follow the
\* checksum, the link id and the clock 70000 first, and the clock has moved on
C14_Witness ==
    /\ call.op = "send" /\ call.arg = <<0>> /\ signing.sign_outgoing
    /\ Len(file) = UnsignedLen(file) + 13
    /\ SubSeq(file, UnsignedLen(file) + 1, UnsignedLen(file) + 7)
          = <<OutLinkId, 112, 17, 1, 0, 0, 0>>
    /\ signing.timestamp = OutClock + 1

(***************************************************************************)
(* What the claims about chunking and the buffer speak of.                 *)
(***************************************************************************)
\* one parse_buffer call with the whole of stream s on a robust session that
\* was set up with the key
InOneCall ==
    [s \in FaultStreams, key \in {NoKey, SessionKey} |->
        parse_buffer([MAVLink(LocalSystem, Component) EXCEPT !.robust_parsing = TRUE],
                     [MAVLinkSigning EXCEPT !.secret_key = key], s, FALSE)]
\* the receive counters of session mv
ReceiveCounters(mv) ==
    <<mv.total_packets_received, mv.total_bytes_received, mv.total_receive_errors>>

\* C15: in robust mode, once the whole stream has been fed, in whatever
\* chunks, and worked off (a parse_buffer call does that; so do parse_char
\* calls until one returns None), the messages and placeholders handed out,
\* the receive counters and the signing state are those of one parse_buffer
\* call with the whole stream.
C15_ChunkingDoesNotMatter ==
    (/\ mav.robust_parsing
     /\ fed = Len(stream)
     /\ call.op = "parse_buffer" \/ Settled)
    => /\ delivered = InOneCall[stream, signing.secret_key].msgs
       /\ ReceiveCounters(mav) = ReceiveCounters(InOneCall[stream, signing.secret_key].mav)
       /\ signing = InOneCall[stream, signing.secret_key].signing

\* a damaged signed frame and a signed frame the session accepts, fed to a
\* robust session with a key in three calls of one byte, two bytes and the
\* rest, the last a parse_buffer call: a placeholder and then the message
\* have been handed out, and the replay table is filled
C15_Witness ==
    /\ mav.robust_parsing /\ signing.secret_key # NoKey
    /\ stream = FlipBit(KeyedFrame, HEADER_LEN_V2 + 1, 7) \o KeyedFrame
    /\ call.op = "parse_buffer" /\ call.n = 3 /\ fed = Len(stream)
    /\ Len(call.arg) = Len(stream) - 3
    /\ Len(delivered) = 2 /\ delivered[1].type = "BAD_DATA" /\ delivered[2].signed
    /\ signing.stream_timestamps # <<>>
    /\ mav.total_receive_errors = 1 /\ mav.total_packets_received = 2

(***************************************************************************)
(* What the claims about rejected frames and the callback speak of.        *)
(***************************************************************************)
\* C16 (as claimed): a decode of a signed frame by a session with a key that
\* raises the invalid-signature error (wrong digest, replayed timestamp or
\* implausible new stream) leaves the replay table and the session timestamp
\* as they were before the call.
C16_RejectionLeavesReplayState ==
    [][(/\ call'.op = "decode"
        /\ IsSignedFrame(call'.arg)
        /\ signing.secret_key # NoKey
        /\ ret' = MAVError("Invalid signature"))
       => /\ signing'.stream_timestamps = signing.stream_timestamps
          /\ signing'.timestamp = signing.timestamp]_vars

\* C17 (as claimed): after every parse_char call that returns, a message or
\* None, and leaves the cursor at the end of the accumulated bytes, the buffer
\* is empty and the cursor is 0.
C17_BufferReleasedWhenConsumed ==
    (call.op = "parse_char" /\ ~IsError(ret) /\ buf_len(mav) = 0)
        => (mav.buf = <<>> /\ mav.buf_index = 0)

(***************************************************************************)
(* What the claim about errors in strict mode speaks of.                   *)
(***************************************************************************)
\* the bytes a strict session raises on: a stray byte, the damaged frames
Offending == DamagedFrames \cup {<<0>>}
\* frame t is one the session, set up with its key, accepts
Accepts(t) == signing.secret_key = NoKey \/ t = KeyedFrame

\* C18: a parse_char or parse_buffer call that raises in strict mode has
\* moved the cursor on, past the stray byte or the candidate frame, and the
\* cursor never moves back over bytes of the stream; so when a stray byte or
\* a damaged frame is followed by a frame the session accepts, that frame's
\* message is handed out once the stream is worked off, with no reset.
C18_ErrorsDoNotStall ==
    /\ [][/\ fed' - buf_len(mav') >= fed - buf_len(mav)
          /\ (call'.op \in {"parse_char", "parse_buffer"} /\ IsError(ret'))
                => (/\ ~mav.robust_parsing
                    /\ fed' - buf_len(mav') > fed - buf_len(mav))]_vars
    /\ [](\A d \in Offending, t \in {PlainFrame, KeyedFrame} :
             (~mav.robust_parsing /\ stream = d \o t /\ Accepts(t) /\ Settled)
             => delivered = <<decode([MAVLinkSigning EXCEPT
                                        !.secret_key = signing.secret_key],
                                     t, FALSE).ret>>)

\* a strict session with a key was fed a signed frame with a flipped payload
\* bit and then the frame as signed, raised on the first, and has returned
\* the message of the second from a later call
C18_Witness ==
    /\ ~mav.robust_parsing /\ signing.secret_key # NoKey
    /\ stream = FlipBit(KeyedFrame, HEADER_LEN_V2 + 1, 7) \o KeyedFrame
    /\ Settled
    /\ call.op = "parse_char" /\ call.n >= 2 /\ IsMessage(ret)
    /\ delivered = <<ret>> /\ ret.signed /\ ret.fields = <<42>>

\* C19: a frame of a known message type whose checksum does not match
\* (MAVLINK_IGNORE_CRC off) makes decode raise the checksum error before any
\* signing step: the whole signing state, with the counters of signed,
\* good, bad, accepted-unsigned and rejected frames, the replay table and the
\* session timestamp, is what it was before the call.
C19_ChecksumBeforeSigning ==
    /\ [][(call'.op = "decode" /\ ret' = MAVError("invalid MAVLink CRC"))
            => signing' = signing]_vars
    /\ []((call.op = "decode" /\ call.arg \in DamagedPeerFrames)
            => ret = MAVError("invalid MAVLink CRC"))

\* a session with a key and a callback that has accepted a signed frame, so
\* that its replay table and counters are filled, has then raised the
\* checksum error on a damaged signed frame
C19_Witness ==
    /\ call.op = "decode" /\ call.arg \in DamagedPeerFrames /\ IsSignedFrame(call.arg)
    /\ ret = MAVError("invalid MAVLink CRC")
    /\ signing.secret_key # NoKey /\ signing.allow_unsigned_callback # NoCallback
    /\ signing.sig_count = 1 /\ signing.goodsig_count = 1
    /\ signing.stream_timestamps # <<>>

\* the last decode returned a message whose signature verified
Verified(r) == IsMessage(r) /\ r.signed

\* C20: on a session with a key and an allow-unsigned callback, a frame of a
\* known message type with a good checksum that is unsigned, or signed with a
\* digest the key does not give, never verifies, and what comes of it is the
\* callback's answer: with true the decoded message, not signed and with no
\* link id, and accepted-unsigned up by 1; with false the invalid-signature
\* error and rejected up by 1.  The two counters together, one of which moves
\* each time the callback is asked, move by exactly 1 for such a frame and
\* not at all for a frame whose signature verified; and a frame with the
\* key's digest on a stream not seen before, not behind the session's clock,
\* does verify.
C20_CallbackDecides ==
    [][(/\ call'.op = "decode"
        /\ signing.secret_key # NoKey
        /\ signing.allow_unsigned_callback # NoCallback)
       => /\ (~IsSignedFrame(call'.arg) \/ ~ValidlySigned(call'.arg)) => ~Verified(ret')
          /\ (/\ ValidlySigned(call'.arg)
              /\ StreamKey(call'.arg) \notin DOMAIN signing.stream_timestamps
              /\ signing.timestamp <= SigTimestamp(call'.arg)) => Verified(ret')
          /\ IF Verified(ret')
             THEN /\ signing'.unsigned_count = signing.unsigned_count
                  /\ signing'.reject_count = signing.reject_count
             ELSE IF signing.allow_unsigned_callback = "accept"
             THEN /\ IsMessage(ret') /\ ~ret'.signed /\ ret'.link_id = NoneInt
                  /\ ret'.type = "VALUE" /\ ret'.fields = <<42>>
                  /\ signing'.unsigned_count = signing.unsigned_count + 1
                  /\ signing'.reject_count = signing.reject_count
             ELSE /\ ret' = MAVError("Invalid signature")
                  /\ signing'.reject_count = signing.reject_count + 1
                  /\ signing'.unsigned_count = signing.unsigned_count]_vars

\* a session with a key whose callback accepts has verified one signed frame
\* without asking, then returned as not signed a frame signed with another
\* key and an unsigned V1 frame
C20_Witness ==
    /\ signing.secret_key # NoKey /\ signing.allow_unsigned_callback = "accept"
    /\ call.op = "decode" /\ call.n = 3 /\ ~IsSignedFrame(call.arg)
    /\ IsMessage(ret) /\ ~ret.signed /\ ret.link_id = NoneInt
    /\ signing.goodsig_count = 1 /\ signing.badsig_count = 1
    /\ signing.unsigned_count = 2 /\ signing.reject_count = 0

(***************************************************************************)
(* What the claim about the session timestamp speaks of.                   *)
(***************************************************************************)
\* C21: over any interleaving of sends by a signing session and decodes, the
\* session timestamp never goes down: a send that signs adds exactly 1 (a
\* send forced to V1 does not sign and leaves it), a decode that accepts a
\* frame's signature makes it the larger of itself and the frame's timestamp,
\* and a decode that does not leaves it as it was.
C21_TimestampNeverDecreases ==
    [][/\ signing'.timestamp >= signing.timestamp
       /\ call'.op = "send" =>
             signing'.timestamp = signing.timestamp + (IF call'.arg = <<0>> THEN 1 ELSE 0)
       /\ (call'.op = "decode" /\ Verified(ret')) =>
             signing'.timestamp = IF SigTimestamp(call'.arg) > signing.timestamp
                                  THEN SigTimestamp(call'.arg) ELSE signing.timestamp
       /\ (call'.op = "decode" /\ ~Verified(ret')) =>
             signing'.timestamp = signing.timestamp]_vars

\* the session signed two frames, its clock going from 5 to 7, then accepted
\* a frame with timestamp 2 and kept 7
C21_Witness ==
    /\ call.op = "decode" /\ call.n = 3 /\ Verified(ret)
    /\ SigTimestamp(call.arg) = 2
    /\ signing.timestamp = ExchangeClock + 2
    /\ mav.total_packets_sent = 2

(***************************************************************************)
(* What the claims about the parser's accounting speak of.                 *)
(***************************************************************************)
\* C22 (as claimed): in both modes a parse_char call that finds a byte that
\* is no magic at the cursor moves the cursor by exactly one byte and the
\* receive-error counter by exactly one, also when, in strict mode, the error
\* of that byte is not raised because one was raised for the run already.
C22_EveryBadByteCounted ==
    [][(/\ call'.op = "parse_char"
        /\ Unconsumed(mav) \o call'.arg # <<>>
        /\ ~IsMagic(Head(Unconsumed(mav) \o call'.arg)))
       => /\ Unconsumed(mav') = Tail(Unconsumed(mav) \o call'.arg)
          /\ mav'.total_receive_errors = mav.total_receive_errors + 1]_vars

\* the bytes a parse_char call finds from the cursor on, and whether they open
\* with a complete candidate frame
Available(mv, c) == Unconsumed(mv) \o c
HoldsCandidate(a) == Len(a) >= 3 /\ IsMagic(a[1]) /\ Len(a) >= Need(a)

\* C23: in robust mode no parse_char or parse_buffer call raises, and a
\* parse_char call that finds a complete candidate frame at the cursor moves
\* the cursor past exactly that candidate and returns one event: if it is a
\* bad-data placeholder it carries the whole candidate and the receive-error
\* counter has gone up by exactly 1, otherwise the counter is as it was; and
\* a candidate with a flipped payload bit, with unknown incompat flags, or
\* without a signature on a session that has a key, comes back as such a
\* placeholder.
C23_FailedCandidateIsOnePlaceholder ==
    [][(mav.robust_parsing /\ call'.op \in {"parse_char", "parse_buffer"})
       => /\ ~IsError(ret')
          /\ (call'.op = "parse_char" /\ HoldsCandidate(Available(mav, call'.arg)))
             => /\ IsMessage(ret')
                /\ Unconsumed(mav') = SubSeq(Available(mav, call'.arg),
                                              Need(Available(mav, call'.arg)) + 1,
                                              Len(Available(mav, call'.arg)))
                /\ IF ret'.type = "BAD_DATA"
                   THEN /\ ret'.data = SubSeq(Available(mav, call'.arg), 1,
                                              Need(Available(mav, call'.arg)))
                        /\ mav'.total_receive_errors = mav.total_receive_errors + 1
                   ELSE mav'.total_receive_errors = mav.total_receive_errors
                /\ (\E d \in DamagedFrames \cup
                              (IF signing.secret_key # NoKey THEN {PlainFrame} ELSE {}) :
                        /\ Len(d) <= Len(Available(mav, call'.arg))
                        /\ SubSeq(Available(mav, call'.arg), 1, Len(d)) = d)
                   => ret'.type = "BAD_DATA"]_vars

\* a robust session with a key has returned, as one placeholder holding the
\* whole frame, an unsigned frame that followed a signed one in the stream
C23_Witness ==
    /\ mav.robust_parsing /\ signing.secret_key # NoKey
    /\ stream = KeyedFrame \o PlainFrame
    /\ call.op = "parse_char" /\ IsMessage(ret) /\ ret.type = "BAD_DATA"
    /\ ret.data = PlainFrame /\ ret.reason = "Invalid signature"
    /\ mav.total_receive_errors = 1 /\ buf_len(mav) = 0
    /\ Len(delivered) = 2

(***************************************************************************)
(* What the claims about the frames pack writes speak of.                  *)
(***************************************************************************)
\* the schema of the message instance msg
SchemaOf(msg) ==
    IF msg.type = MsgEmpty.name THEN MsgEmpty
    ELSE CHOOSE m \in {msgs[i] : i \in 1..Len(msgs)} : m.name = msg.type
\* the length of the header of frame f
FrameHeaderLen(f) == IF f[1] = PROTOCOL_MARKER_V1 THEN HEADER_LEN_V1 ELSE HEADER_LEN_V2
\* the payload bytes of frame f, as its length byte delimits them
FramePayload(f) == SubSeq(f, FrameHeaderLen(f) + 1, FrameHeaderLen(f) + f[2])

\* C24: a send by a session of wire version 2, V1 not forced, puts on the
\* wire the shortest prefix of the serialized payload, at least one byte
\* long, after which the serialized payload holds only zero bytes (an empty
\* payload stays empty); a send forced to V1 or by a session of wire version
\* 1 puts the serialized payload on the wire whole; the length byte of the
\* header and the checksum are those of the payload as sent.
C24_TrailingZerosTrimmed ==
    [][call'.op = "send" =>
        LET full == FullPayload(SchemaOf(mavmsg'), mavmsg'.fields)
            sent == FramePayload(file')
        IN  /\ IF WIRE_PROTOCOL_VERSION = "2.0" /\ call'.arg = <<0>>
               THEN /\ Len(sent) <= Len(full)
                    /\ sent = SubSeq(full, 1, Len(sent))
                    /\ \A i \in (Len(sent) + 1)..Len(full) : full[i] = 0
                    /\ full # <<>> => Len(sent) >= 1
                    /\ Len(sent) > 1 => sent[Len(sent)] # 0
               ELSE sent = full
            /\ mavmsg'.payload = sent
            /\ mavmsg'.header.mlen = Len(sent)
            /\ Len(file') = FrameHeaderLen(file') + Len(sent) + 2
            /\ StoredCrc(file')
                  = x25crc(SubSeq(file', 2, FrameHeaderLen(file') + Len(sent))
                              \o <<SchemaOf(mavmsg').crc_extra>>)]_vars

\* a wire version 2 session has sent a message whose three payload bytes are
\* all zero as a frame with one payload byte
C24_Witness ==
    /\ WIRE_PROTOCOL_VERSION = "2.0" /\ call.op = "send" /\ call.arg = <<0>>
    /\ mavmsg.type = MsgPair.name /\ mavmsg.fields = <<0, 0>>
    /\ FullPayload(MsgPair, mavmsg.fields) = <<0, 0, 0>>
    /\ FramePayload(file) = <<0>> /\ file[2] = 1

\* a parser that has seen nothing, fed frame f in one parse_char call
FreshParse(f) ==
    parse_char([MAVLink(PeerSystem, Component) EXCEPT !.robust_parsing = TRUE],
               MAVLinkSigning, f, FALSE)

\* C25 (as claimed): every frame a send writes, whatever the wire version,
\* forced to V1 or not, signed or not, is as long as the parser takes it to
\* be from its first three bytes: header, payload and 2, and 13 more exactly
\* when it starts with the V2 magic and has the signed flag; a frame that
\* starts with the V1 magic has no signature block; a parser that has seen
\* nothing takes the frame as one candidate and leaves no byte over.
C25_FrameLengthAsParserExpects ==
    call.op = "send" =>
        /\ Len(file) = Need(file)
        /\ file[1] = PROTOCOL_MARKER_V1 => Len(file) = UnsignedLen(file)
        /\ IsMessage(FreshParse(file).ret)
        /\ buf_len(FreshParse(file).mav) = 0

\* C26 (as claimed): the payload stored in the instance a send has filled in,
\* and in the instance decode returns, is the frame's bytes between its
\* header (6 bytes for V1, 10 for V2) and its checksum, as long as the
\* instance's header says; and decode of the frame just sent stores the
\* payload the send stored.
C26_StoredPayloadIsFramePayload ==
    /\ call.op = "send" =>
          /\ mavmsg.payload = FramePayload(file)
          /\ Len(mavmsg.payload) = mavmsg.header.mlen
    /\ (RoundTripped /\ IsMessage(ret)) =>
          /\ ret.payload = FramePayload(call.arg)
          /\ Len(ret.payload) = ret.header.mlen
          /\ ret.payload = mavmsg.payload

(***************************************************************************)
(* What the claim about the candidates handed to decode speaks of.         *)
(***************************************************************************)
\* what decode raises on a buffer whose first byte or whose length is wrong
HeaderErrors ==
    {"Unable to unpack MAVLink header", "invalid MAVLink prefix",
     "invalid MAVLink message length"}

\* C27: what the parser hands to decode starts with a magic byte and is as
\* long as its header says, so decode's prefix and length errors never come
\* out of parse_char or parse_buffer: no placeholder of a robust session has
\* one of them as its reason, a strict session never raises the length
\* error, and when it raises the prefix error it is the parser's own, raised
\* with the receive-error counter moved by one, which decode never moves.
\* decode called directly on a buffer with another first byte or a wrong
\* length does raise them.
C27_CandidatesAreWellFormed ==
    /\ [][(call'.op \in {"parse_char", "parse_buffer"} /\ IsError(ret'))
            => /\ ret'.message \notin HeaderErrors \ {"invalid MAVLink prefix"}
               /\ ret'.message = "invalid MAVLink prefix"
                    => mav'.total_receive_errors = mav.total_receive_errors + 1]_vars
    /\ [](/\ \A i \in 1..Len(delivered) :
                delivered[i].type = "BAD_DATA" => delivered[i].reason \notin HeaderErrors
          /\ (call.op = "decode" /\ call.arg \in MalformedBuffers)
                => (IsError(ret) /\ ret.message \in HeaderErrors))

\* a robust session fed the bytes fe 00 and then a V1 frame has taken the
\* eight bytes from the first fe as a candidate, which decode turned down
\* for its checksum
C27_Witness ==
    /\ mav.robust_parsing
    /\ SubSeq(stream, 1, 2) = <<PROTOCOL_MARKER_V1, 0>>
    /\ delivered # <<>> /\ delivered[1].type = "BAD_DATA"
    /\ delivered[1].data = SubSeq(stream, 1, 8)
    /\ delivered[1].reason = "invalid MAVLink CRC"

(***************************************************************************)
(* What the claim about a session that demands signatures speaks of.       *)
(***************************************************************************)
\* the session has a key and no allow-unsigned callback
DemandsSignature ==
    signing.secret_key # NoKey /\ signing.allow_unsigned_callback = NoCallback

\* C28 (as claimed): on a session with a key and no callback every event
\* decode returns, unknown-message placeholders too, comes from a frame with
\* a signature block that passed the signature check.
C28_OnlyVerifiedEvents ==
    (DemandsSignature /\ call.op = "decode" /\ IsMessage(ret))
        => (IsSignedFrame(call.arg) /\ ValidlySigned(call.arg))

\* C28 (amended): on a session with a key and no callback every message of a
\* known type decode returns comes from a frame with a signature block that
\* passed the signature check, and is tagged as signed with the frame's link
\* id; a frame of an unknown message id comes back as its placeholder
\* whether it is signed or not.
C28_OnlyVerifiedKnownMessages ==
    (DemandsSignature /\ call.op = "decode")
        => /\ (IsMessage(ret) /\ ret.type # "UNKNOWN")
                => /\ IsSignedFrame(call.arg) /\ ValidlySigned(call.arg)
                   /\ ret.signed /\ ret.link_id = SigLinkId(call.arg)
           /\ call.arg \in UnknownFrames => ret = UnknownPlaceholder(call.arg)
           /\ (call.arg \in UnsignedPeerFrames
                 \/ (call.arg \in SignedPeerFrames /\ ~ValidlySigned(call.arg)))
                => ret = MAVError("Invalid signature")

\* a session with a key and no callback has turned down an unsigned frame
\* and a frame signed with another key, and returned a frame signed with its
\* key as a signed message
C28_Witness ==
    /\ DemandsSignature /\ call.op = "decode" /\ call.n = 3
    /\ IsMessage(ret) /\ ret.signed /\ ret.type = "VALUE"
    /\ signing.sig_count = 2 /\ signing.badsig_count = 1 /\ signing.goodsig_count = 1

(***************************************************************************)
(* What the claims about the buffer's accounting and parse_buffer speak    *)
(* of.                                                                     *)
(***************************************************************************)
\* C29: in every state the cursor lies within the buffer; the bytes-received
\* counter is the number of bytes fed, which is the bytes the cursor has
\* passed and the bytes still unconsumed; the unconsumed bytes are exactly
\* the last bytes fed; a parse_char call either keeps the buffer, appending
\* its bytes and moving the cursor forward only, or releases it, and then
\* the parser had left nothing in it unconsumed, so that no byte is dropped
\* or examined twice; the packets-received counter is the number of events
\* handed out, placeholders included.
C29_BufferAccounting ==
    /\ [][call'.op = "parse_char"
            => \/ /\ mav'.buf = mav.buf \o call'.arg
                  /\ mav'.buf_index >= mav.buf_index
               \/ /\ mav'.buf = <<>> /\ mav'.buf_index = 0
                  /\ ret'.kind = "None"
                  /\ buf_len(parse_char_legacy([mav EXCEPT !.buf = @ \o call'.arg],
                                               signing, MAVLINK_IGNORE_CRC).mav) = 0]_vars
    /\ [](/\ 0 <= mav.buf_index /\ mav.buf_index <= Len(mav.buf)
          /\ mav.total_bytes_received = fed
          /\ Unconsumed(mav) = SubSeq(stream, fed - buf_len(mav) + 1, fed)
          /\ mav.total_packets_received = Len(delivered))

\* a robust session has handed out a placeholder and a message and holds the
\* first bytes of nothing more: the cursor is inside the buffer, which was
\* not released because the last call returned an event
C29_Witness ==
    /\ mav.robust_parsing /\ call.op = "parse_char"
    /\ Len(delivered) = 2 /\ delivered[1].type = "BAD_DATA" /\ delivered[2].type = "VALUE"
    /\ mav.total_packets_received = 2
    /\ mav.buf_index > 0 /\ mav.total_bytes_received = fed
    /\ fed = Len(stream)

\* the unconsumed bytes u hold no complete candidate: nothing, or a magic
\* byte followed by fewer bytes than the frame it opens is long
NoCompleteCandidate(u) ==
    \/ u = <<>>
    \/ /\ IsMagic(u[1])
       /\ (Len(u) < 3 \/ Len(u) < Need(u))

\* C30: parse_buffer terminates: a parse_char call that returns an event
\* leaves fewer unconsumed bytes than it was given, so that a parse_buffer
\* call returns no more events than bytes it consumed; and when a robust
\* session returns from parse_buffer the unconsumed bytes hold no complete
\* candidate.
C30_ParseBufferDrains ==
    /\ [][((call'.op = "parse_char" /\ IsMessage(ret'))
               => buf_len(mav') < buf_len(mav) + Len(call'.arg))
          /\ (call'.op = "parse_buffer"
               => /\ Len(delivered') - Len(delivered)
                        <= (fed' - buf_len(mav')) - (fed - buf_len(mav))
                  /\ (mav.robust_parsing => NoCompleteCandidate(Unconsumed(mav'))))]_vars
    /\ [](IsMessage(parse_char(mav, signing, <<>>, MAVLINK_IGNORE_CRC).ret)
            => buf_len(parse_char(mav, signing, <<>>, MAVLINK_IGNORE_CRC).mav) < buf_len(mav))

\* a robust session's parse_buffer call has returned two events, one of them
\* a decoded message, and left the opening bytes of a frame unconsumed
C30_Witness ==
    /\ mav.robust_parsing /\ call.op = "parse_buffer"
    /\ ret.kind = "list" /\ Len(ret.msgs) >= 2
    /\ \E i \in 1..Len(ret.msgs) : ret.msgs[i].type \notin {"BAD_DATA", "UNKNOWN"}
    /\ Unconsumed(mav) # <<>> /\ IsMagic(Unconsumed(mav)[1])

=============================================================================
